---------------------------- MODULE Spec2Model ----------------------------
(***************************************************************************)
(* Model of gv100ad: the composite keys (src/src/model), the in-memory     *)
(* Database with its ordered maps and range queries (src/src/db.rs) and    *)
(* the fixed-width record parser (src/src/parser.rs).                      *)
(*                                                                         *)
(* Three specifications share the module:                                  *)
(*   Spec       Database::insert applied to a growing sequence of records  *)
(*   SpecKey    FromStr / Display of the key types on bounded strings      *)
(*   SpecParse  Parser::parse_line over a bounded source of lines          *)
(***************************************************************************)
EXTENDS Integers, Sequences, FiniteSets, TLC

VARIABLES
    db,         \* the Database (db.rs:27-47)
    log,        \* the records passed to Database::insert so far, in order
    keyPc,      \* SpecKey: "start" | "parsed" | "shown"
    keyTy,      \* SpecKey: the key type whose from_str is called
    keyIn,      \* SpecKey: the input string (a sequence of characters)
    keyOut,     \* SpecKey: the result of from_str
    keyStr,     \* SpecKey: the result of Display on the parsed key
    reader,     \* SpecParse: Parser::reader, the lines not yet read
    lineRead,   \* SpecParse: the line read by the last parse_line call
    result,     \* SpecParse: what the last parse_line call returned;
                \* SpecLoad: what from_parser returned, None while it runs
    source,     \* SpecParse, SpecLoad: the lines of the source given to Parser::new
    calls,      \* SpecParse, SpecLoad: the number of parse_line calls made
    ordIn,      \* SpecOrd: the key type and the two keys given
    ordOut,     \* SpecOrd: the result of the comparison or conversion
    fldLine,    \* SpecFields: the line given to FieldReader::new
    fldRest,    \* SpecFields: the FieldReader, the characters not yet taken
    fldOut,     \* SpecFields: the last call and what it returned
    fldCalls,   \* SpecFields: the number of calls made
    queryOut    \* SpecQuery: the last get, all or children call and its result

vars == <<db, log, keyPc, keyTy, keyIn, keyOut, keyStr, reader, lineRead, result,
          source, calls, ordIn, ordOut, fldLine, fldRest, fldOut, fldCalls,
          queryOut>>
dbVars == <<db, log>>
keyVars == <<keyPc, keyTy, keyIn, keyOut, keyStr>>
parseVars == <<reader, lineRead, result, source, calls>>
ordVars == <<ordIn, ordOut>>
fieldVars == <<fldLine, fldRest, fldOut, fldCalls>>
pureVars == <<ordVars, fieldVars, queryOut>>

(***************************************************************************)
(* Bounds and program constants                                            *)
(***************************************************************************)
\* number of Database::insert calls explored
MaxInserts == 3

U8Min == 0
U8Max == 255
U16Min == 0
U16Max == 65535

(***************************************************************************)
(* Option<T>                                                               *)
(***************************************************************************)
None == [tag |-> "None"]
Some(v) == [tag |-> "Some", val |-> v]

(***************************************************************************)
(* Key types (src/src/model/*.rs).  Each is a struct of the parent key and *)
(* one local component; the field order is the declaration order, which is *)
(* what #[derive(Ord)] compares by.                                        *)
(***************************************************************************)
LandSchluessel_new(land) == [land |-> land]

RegierungsbezirkSchluessel_new(land, regierungsbezirk) ==
    [land |-> land, regierungsbezirk |-> regierungsbezirk]

RegionSchluessel_new(regierungsbezirk, region) ==
    [regierungsbezirk |-> regierungsbezirk, region |-> region]

KreisSchluessel_new(regierungsbezirk, kreis) ==
    [regierungsbezirk |-> regierungsbezirk, kreis |-> kreis]

KreisSchluessel_new_land(land, kreis) ==
    [regierungsbezirk |-> RegierungsbezirkSchluessel_new(land, 0), kreis |-> kreis]

GemeindeverbandSchluessel_new(kreis, gemeindeverband) ==
    [kreis |-> kreis, gemeindeverband |-> gemeindeverband]

RegionalSchluessel_new(kreis, gemeinde) ==
    [kreis |-> kreis, gemeinde |-> gemeinde]

GemeindeSchluessel_new(gemeindeverband, gemeinde) ==
    [gemeindeverband |-> gemeindeverband, gemeinde |-> gemeinde]

\* the two u16 components in each other's place
GemeindeSchluessel_from_regional_schluessel_swapped(regional_schluessel, gemeindeverband) ==
    [gemeindeverband |->
         GemeindeverbandSchluessel_new(regional_schluessel.kreis,
                                       regional_schluessel.gemeinde),
     gemeinde |-> gemeindeverband]

GemeindeSchluessel_from_regional_schluessel(regional_schluessel, gemeindeverband) ==
    [gemeindeverband |->
         GemeindeverbandSchluessel_new(regional_schluessel.kreis, gemeindeverband),
     gemeinde |-> regional_schluessel.gemeinde]

RegionalSchluessel_to_gemeinde_schluessel(self, gemeindeverband) ==
    GemeindeSchluessel_from_regional_schluessel(self, gemeindeverband)

(***************************************************************************)
(* From<..> impls: projection of a key to an ancestor level.               *)
(***************************************************************************)
\* a projection that wraps the local component instead of the parent key
Land_from_Regierungsbezirk_local_field(regierungsbezirk) ==
    LandSchluessel_new(regierungsbezirk.regierungsbezirk)

Land_from_Regierungsbezirk(regierungsbezirk) == regierungsbezirk.land

Regierungsbezirk_from_Region(region) == region.regierungsbezirk
Land_from_Region(region) == Land_from_Regierungsbezirk(region.regierungsbezirk)

\* a conversion that keeps the Kreis number in place of the Regierungsbezirk
Regierungsbezirk_from_Kreis_local_field(kreis) ==
    RegierungsbezirkSchluessel_new(kreis.regierungsbezirk.land, kreis.kreis)

Regierungsbezirk_from_Kreis(kreis) == kreis.regierungsbezirk
Land_from_Kreis(kreis) == Land_from_Regierungsbezirk(kreis.regierungsbezirk)

Kreis_from_Gemeindeverband(gemeinde) == gemeinde.kreis
Regierungsbezirk_from_Gemeindeverband(gemeinde) ==
    Regierungsbezirk_from_Kreis(gemeinde.kreis)
Land_from_Gemeindeverband(gemeinde) == Land_from_Kreis(gemeinde.kreis)

Kreis_from_Regional(gemeinde) == gemeinde.kreis
Regierungsbezirk_from_Regional(gemeinde) == Regierungsbezirk_from_Kreis(gemeinde.kreis)
Land_from_Regional(gemeinde) == Land_from_Kreis(gemeinde.kreis)

Gemeindeverband_from_Gemeinde(gemeinde) == gemeinde.gemeindeverband
Kreis_from_Gemeinde(gemeinde) == Kreis_from_Gemeindeverband(gemeinde.gemeindeverband)
Regierungsbezirk_from_Gemeinde(gemeinde) ==
    Regierungsbezirk_from_Gemeindeverband(gemeinde.gemeindeverband)
Land_from_Gemeinde(gemeinde) == Land_from_Gemeindeverband(gemeinde.gemeindeverband)
Regional_from_Gemeinde(gemeinde) ==
    [kreis |-> Kreis_from_Gemeindeverband(gemeinde.gemeindeverband),
     gemeinde |-> gemeinde.gemeinde]

(***************************************************************************)
(* #[derive(Ord)]: lexicographic comparison of the fields in declaration   *)
(* order, each parent key compared by its own derived order.               *)
(***************************************************************************)
LandLt(a, b) == a.land < b.land

\* an order that compares the local component before the parent key
RegierungsbezirkLt_local_first(a, b) ==
    \/ a.regierungsbezirk < b.regierungsbezirk
    \/ a.regierungsbezirk = b.regierungsbezirk /\ LandLt(a.land, b.land)

RegierungsbezirkLt(a, b) ==
    \/ LandLt(a.land, b.land)
    \/ a.land = b.land /\ a.regierungsbezirk < b.regierungsbezirk

RegionLt(a, b) ==
    \/ RegierungsbezirkLt(a.regierungsbezirk, b.regierungsbezirk)
    \/ a.regierungsbezirk = b.regierungsbezirk /\ a.region < b.region

KreisLt(a, b) ==
    \/ RegierungsbezirkLt(a.regierungsbezirk, b.regierungsbezirk)
    \/ a.regierungsbezirk = b.regierungsbezirk /\ a.kreis < b.kreis

GemeindeverbandLt(a, b) ==
    \/ KreisLt(a.kreis, b.kreis)
    \/ a.kreis = b.kreis /\ a.gemeindeverband < b.gemeindeverband

\* an order that compares the local component before the parent key
GemeindeLt_gemeinde_first(a, b) ==
    \/ a.gemeinde < b.gemeinde
    \/ a.gemeinde = b.gemeinde
         /\ GemeindeverbandLt(a.gemeindeverband, b.gemeindeverband)

GemeindeLt(a, b) ==
    \/ GemeindeverbandLt(a.gemeindeverband, b.gemeindeverband)
    \/ a.gemeindeverband = b.gemeindeverband /\ a.gemeinde < b.gemeinde

RegionalLt(a, b) ==
    \/ KreisLt(a.kreis, b.kreis)
    \/ a.kreis = b.kreis /\ a.gemeinde < b.gemeinde

(***************************************************************************)
(* std::collections::BTreeMap as used by db.rs: a finite function from     *)
(* keys to values, iterated in ascending order of the key type's Ord.      *)
(***************************************************************************)
EmptyMap == [k \in {} |-> None]

\* an insert that keeps the value already stored under the key
BTreeMap_insert_keep_old(map, k, v) ==
    [x \in DOMAIN map \cup {k} |-> IF x \in DOMAIN map THEN map[x] ELSE v]

\* an insert into a map that holds one entry: the others are dropped
BTreeMap_insert_clearing(map, k, v) ==
    [x \in {k} |-> v]

BTreeMap_insert(map, k, v) ==
    [x \in DOMAIN map \cup {k} |-> IF x = k THEN v ELSE map[x]]

BTreeMap_get(map, k) == IF k \in DOMAIN map THEN Some(map[k]) ELSE None

\* a map that holds the entry inserted last, and no other
HashMap_insert_single(map, k, v) ==
    [x \in {k} |-> v]

\* std::collections::HashMap as used for the secondary index
\* insert that keeps the value of a key that is present
HashMap_insert_keep_old(map, k, v) ==
    IF k \in DOMAIN map THEN map ELSE (k :> v) @@ map

HashMap_insert(map, k, v) ==
    [x \in DOMAIN map \cup {k} |-> IF x = k THEN v ELSE map[x]]

HashMap_get(map, k) == IF k \in DOMAIN map THEN Some(map[k]) ELSE None

\* Ord::lt of the key type of a kind
Ord_lt(kind, a, b) ==
    CASE kind = "Land" -> LandLt(a, b)
      [] kind = "Regierungsbezirk" -> RegierungsbezirkLt(a, b)
      [] kind = "Region" -> RegionLt(a, b)
      [] kind = "Kreis" -> KreisLt(a, b)
      [] kind = "Gemeindeverband" -> GemeindeverbandLt(a, b)
      [] kind = "Gemeinde" -> GemeindeLt(a, b)

\* the keys of S as the ascending sequence under the order of the key type
SortedKeys(S, kind) ==
    [i \in 1..Cardinality(S) |->
        CHOOSE k \in S : Cardinality({j \in S : Ord_lt(kind, j, k)}) = i - 1]

\* BTreeMap::values(): the values in ascending key order
BTreeMap_values(map, kind) ==
    LET ks == SortedKeys(DOMAIN map, kind)
    IN  [i \in DOMAIN ks |-> map[ks[i]]]

\* BTreeMap::range(lo..=hi): panics when lo > hi, else the entries with
\* lo <= key <= hi in ascending key order
BTreeMap_range(map, r, kind) ==
    IF Ord_lt(kind, r.hi, r.lo)
    THEN [tag |-> "Panic"]
    ELSE LET ks == SortedKeys({k \in DOMAIN map :
                                  ~Ord_lt(kind, k, r.lo) /\ ~Ord_lt(kind, r.hi, k)}, kind)
         IN  [tag |-> "Iter", items |-> [i \in DOMAIN ks |-> map[ks[i]]]]

(***************************************************************************)
(* IntoRangeKey (db.rs:135-255): the closed range of descendant keys of a  *)
(* key, from the components' MIN to their MAX.                             *)
(***************************************************************************)
RangeInclusive(lo, hi) == [lo |-> lo, hi |-> hi]

Land_into_range_Regierungsbezirk(self) ==
    RangeInclusive(RegierungsbezirkSchluessel_new(self, U8Min),
                   RegierungsbezirkSchluessel_new(self, U8Max))

Land_into_range_Region(self) ==
    RangeInclusive(
        RegionSchluessel_new(RegierungsbezirkSchluessel_new(self, U8Min), U8Min),
        RegionSchluessel_new(RegierungsbezirkSchluessel_new(self, U8Max), U8Max))

\* a range from the greatest to the least key of the Land
Land_into_range_Kreis_reversed(self) ==
    RangeInclusive(
        KreisSchluessel_new(RegierungsbezirkSchluessel_new(self, U8Max), U8Max),
        KreisSchluessel_new(RegierungsbezirkSchluessel_new(self, U8Min), U8Min))

Land_into_range_Kreis(self) ==
    RangeInclusive(
        KreisSchluessel_new(RegierungsbezirkSchluessel_new(self, U8Min), U8Min),
        KreisSchluessel_new(RegierungsbezirkSchluessel_new(self, U8Max), U8Max))

Land_into_range_Gemeindeverband(self) ==
    RangeInclusive(
        GemeindeverbandSchluessel_new(
            KreisSchluessel_new(RegierungsbezirkSchluessel_new(self, U8Min), U8Min),
            U16Min),
        GemeindeverbandSchluessel_new(
            KreisSchluessel_new(RegierungsbezirkSchluessel_new(self, U8Max), U8Max),
            U16Max))

Land_into_range_Gemeinde(self) ==
    RangeInclusive(
        GemeindeSchluessel_new(
            GemeindeverbandSchluessel_new(
                KreisSchluessel_new(RegierungsbezirkSchluessel_new(self, U8Min), U8Min),
                U16Min),
            U16Min),
        GemeindeSchluessel_new(
            GemeindeverbandSchluessel_new(
                KreisSchluessel_new(RegierungsbezirkSchluessel_new(self, U8Max), U8Max),
                U16Max),
            U16Max))

Regierungsbezirk_into_range_Region(self) ==
    RangeInclusive(RegionSchluessel_new(self, U8Min), RegionSchluessel_new(self, U8Max))

Regierungsbezirk_into_range_Kreis(self) ==
    RangeInclusive(KreisSchluessel_new(self, U8Min), KreisSchluessel_new(self, U8Max))

Regierungsbezirk_into_range_Gemeindeverband(self) ==
    RangeInclusive(
        GemeindeverbandSchluessel_new(KreisSchluessel_new(self, U8Min), U16Min),
        GemeindeverbandSchluessel_new(KreisSchluessel_new(self, U8Max), U16Max))

Regierungsbezirk_into_range_Gemeinde(self) ==
    RangeInclusive(
        GemeindeSchluessel_new(
            GemeindeverbandSchluessel_new(KreisSchluessel_new(self, U8Min), U16Min),
            U16Min),
        GemeindeSchluessel_new(
            GemeindeverbandSchluessel_new(KreisSchluessel_new(self, U8Max), U16Max),
            U16Max))

\* a range that runs on to the last Kreis of the Regierungsbezirk
Kreis_into_range_Gemeindeverband_to_last_kreis(self) ==
    RangeInclusive(GemeindeverbandSchluessel_new(self, U16Min),
                   GemeindeverbandSchluessel_new(
                       KreisSchluessel_new(self.regierungsbezirk, U8Max), U16Max))

Kreis_into_range_Gemeindeverband(self) ==
    RangeInclusive(GemeindeverbandSchluessel_new(self, U16Min),
                   GemeindeverbandSchluessel_new(self, U16Max))

\* a range whose upper bound stops at the nominal three-digit maximum
Kreis_into_range_Gemeinde_nominal(self) ==
    RangeInclusive(
        GemeindeSchluessel_new(GemeindeverbandSchluessel_new(self, U16Min), U16Min),
        GemeindeSchluessel_new(GemeindeverbandSchluessel_new(self, 9999), 999))

Kreis_into_range_Gemeinde(self) ==
    RangeInclusive(
        GemeindeSchluessel_new(GemeindeverbandSchluessel_new(self, U16Min), U16Min),
        GemeindeSchluessel_new(GemeindeverbandSchluessel_new(self, U16Max), U16Max))

\* the upper bound with the largest Gemeinde number of three digits
Gemeindeverband_into_range_Gemeinde_nominal(self) ==
    RangeInclusive(GemeindeSchluessel_new(self, U16Min),
                   GemeindeSchluessel_new(self, 999))

Gemeindeverband_into_range_Gemeinde(self) ==
    RangeInclusive(GemeindeSchluessel_new(self, U16Min),
                   GemeindeSchluessel_new(self, U16Max))

(***************************************************************************)
(* Database (db.rs:27-129)                                                 *)
(***************************************************************************)
\* Database::default()
Database_default ==
    [laender |-> EmptyMap,
     regierungsbezirke |-> EmptyMap,
     regionen |-> EmptyMap,
     kreise |-> EmptyMap,
     gemeindeverbaende |-> EmptyMap,
     gemeinden |-> EmptyMap,
     gemeindeverband_schluessel |-> EmptyMap]

\* Datensatz (datensatz.rs:14-21): the record kind and the record, which
\* carries its own key in the field schluessel
Datensatz(kind, schluessel, name) ==
    [kind |-> kind, daten |-> [schluessel |-> schluessel, name |-> name]]

\* Database::insert
\* insert that, with a Gemeinde, also stores an entry for the Gemeindeverband
\* of its key
Database_insert_with_parent(self, datensatz) ==
    LET d == datensatz.daten IN
    CASE datensatz.kind = "Land" ->
           [self EXCEPT !.laender = BTreeMap_insert(@, d.schluessel, d)]
      [] datensatz.kind = "Regierungsbezirk" ->
           [self EXCEPT !.regierungsbezirke = BTreeMap_insert(@, d.schluessel, d)]
      [] datensatz.kind = "Region" ->
           [self EXCEPT !.regionen = BTreeMap_insert(@, d.schluessel, d)]
      [] datensatz.kind = "Kreis" ->
           [self EXCEPT !.kreise = BTreeMap_insert(@, d.schluessel, d)]
      [] datensatz.kind = "Gemeindeverband" ->
           [self EXCEPT !.gemeindeverbaende = BTreeMap_insert(@, d.schluessel, d)]
      [] datensatz.kind = "Gemeinde" ->
           [self EXCEPT
              !.gemeindeverband_schluessel =
                  HashMap_insert(@, Regional_from_Gemeinde(d.schluessel),
                                  d.schluessel.gemeindeverband.gemeindeverband),
              !.gemeindeverbaende =
                  BTreeMap_insert(@, d.schluessel.gemeindeverband,
                                  [d EXCEPT !.schluessel = d.schluessel.gemeindeverband]),
              !.gemeinden = BTreeMap_insert(@, d.schluessel, d)]

\* insert that stores a Gemeinde without its entry of the index
Database_insert_unindexed(self, datensatz) ==
    LET d == datensatz.daten IN
    CASE datensatz.kind = "Land" ->
           [self EXCEPT !.laender = BTreeMap_insert(@, d.schluessel, d)]
      [] datensatz.kind = "Regierungsbezirk" ->
           [self EXCEPT !.regierungsbezirke = BTreeMap_insert(@, d.schluessel, d)]
      [] datensatz.kind = "Region" ->
           [self EXCEPT !.regionen = BTreeMap_insert(@, d.schluessel, d)]
      [] datensatz.kind = "Kreis" ->
           [self EXCEPT !.kreise = BTreeMap_insert(@, d.schluessel, d)]
      [] datensatz.kind = "Gemeindeverband" ->
           [self EXCEPT !.gemeindeverbaende = BTreeMap_insert(@, d.schluessel, d)]
      [] datensatz.kind = "Gemeinde" ->
           [self EXCEPT !.gemeinden = BTreeMap_insert(@, d.schluessel, d)]

Database_insert(self, datensatz) ==
    LET d == datensatz.daten IN
    CASE datensatz.kind = "Land" ->
           [self EXCEPT !.laender = BTreeMap_insert(@, d.schluessel, d)]
      [] datensatz.kind = "Regierungsbezirk" ->
           [self EXCEPT !.regierungsbezirke = BTreeMap_insert(@, d.schluessel, d)]
      [] datensatz.kind = "Region" ->
           [self EXCEPT !.regionen = BTreeMap_insert(@, d.schluessel, d)]
      [] datensatz.kind = "Kreis" ->
           [self EXCEPT !.kreise = BTreeMap_insert(@, d.schluessel, d)]
      [] datensatz.kind = "Gemeindeverband" ->
           [self EXCEPT !.gemeindeverbaende = BTreeMap_insert(@, d.schluessel, d)]
      [] datensatz.kind = "Gemeinde" ->
           [self EXCEPT
              !.gemeindeverband_schluessel =
                  HashMap_insert(@, Regional_from_Gemeinde(d.schluessel),
                                  d.schluessel.gemeindeverband.gemeindeverband),
              !.gemeinden = BTreeMap_insert(@, d.schluessel, d)]

\* regional_to_gemeinde_schluessel without the index: the Gemeindeverband
\* number is taken to be 0
Database_regional_to_gemeinde_schluessel_no_index(self, regional_schluessel) ==
    Some(RegionalSchluessel_to_gemeinde_schluessel(regional_schluessel, 0))

\* Database::regional_to_gemeinde_schluessel
Database_regional_to_gemeinde_schluessel(self, regional_schluessel) ==
    LET gemeindeverband ==
            HashMap_get(self.gemeindeverband_schluessel, regional_schluessel)
    IN  IF gemeindeverband = None
        THEN None
        ELSE Some(RegionalSchluessel_to_gemeinde_schluessel(
                      regional_schluessel, gemeindeverband.val))

(***************************************************************************)
(* Lookup<K> impls (db.rs:257-376): Database::get::<K, V>                  *)
(***************************************************************************)
LandDaten_lookup_Land(key, self) == BTreeMap_get(self.laender, key)
LandDaten_lookup_Regierungsbezirk(key, self) ==
    BTreeMap_get(self.laender, Land_from_Regierungsbezirk(key))
LandDaten_lookup_Region(key, self) ==
    BTreeMap_get(self.laender, Land_from_Region(key))
LandDaten_lookup_Kreis(key, self) ==
    BTreeMap_get(self.laender, Land_from_Kreis(key))
LandDaten_lookup_Gemeindeverband(key, self) ==
    BTreeMap_get(self.laender, Land_from_Gemeindeverband(key))
LandDaten_lookup_Gemeinde(key, self) ==
    BTreeMap_get(self.laender, Land_from_Gemeinde(key))

RegierungsbezirkDaten_lookup_Regierungsbezirk(key, self) ==
    BTreeMap_get(self.regierungsbezirke, key)
RegierungsbezirkDaten_lookup_Region(key, self) ==
    BTreeMap_get(self.regierungsbezirke, Regierungsbezirk_from_Region(key))
RegierungsbezirkDaten_lookup_Kreis(key, self) ==
    BTreeMap_get(self.regierungsbezirke, Regierungsbezirk_from_Kreis(key))
RegierungsbezirkDaten_lookup_Gemeindeverband(key, self) ==
    BTreeMap_get(self.regierungsbezirke, Regierungsbezirk_from_Gemeindeverband(key))
RegierungsbezirkDaten_lookup_Gemeinde(key, self) ==
    BTreeMap_get(self.regierungsbezirke, Regierungsbezirk_from_Gemeinde(key))

RegionDaten_lookup_Region(key, self) == BTreeMap_get(self.regionen, key)

KreisDaten_lookup_Kreis(key, self) == BTreeMap_get(self.kreise, key)
KreisDaten_lookup_Gemeindeverband(key, self) ==
    BTreeMap_get(self.kreise, Kreis_from_Gemeindeverband(key))
KreisDaten_lookup_Gemeinde(key, self) ==
    BTreeMap_get(self.kreise, Kreis_from_Gemeinde(key))

GemeindeverbandDaten_lookup_Gemeindeverband(key, self) ==
    BTreeMap_get(self.gemeindeverbaende, key)
GemeindeverbandDaten_lookup_Gemeinde(key, self) ==
    BTreeMap_get(self.gemeindeverbaende, Gemeindeverband_from_Gemeinde(key))

GemeindeDaten_lookup_Gemeinde(key, self) == BTreeMap_get(self.gemeinden, key)

GemeindeDaten_lookup_Regional(key, self) ==
    LET k == Database_regional_to_gemeinde_schluessel(self, key)
    IN  IF k = None THEN None ELSE BTreeMap_get(self.gemeinden, k.val)

(***************************************************************************)
(* IterAll impls (db.rs:379-431): Database::all::<V>                       *)
(***************************************************************************)
LandDaten_iter_all(self) == BTreeMap_values(self.laender, "Land")
RegierungsbezirkDaten_iter_all(self) ==
    BTreeMap_values(self.regierungsbezirke, "Regierungsbezirk")
RegionDaten_iter_all(self) == BTreeMap_values(self.regionen, "Region")
KreisDaten_iter_all(self) == BTreeMap_values(self.kreise, "Kreis")
GemeindeverbandDaten_iter_all(self) ==
    BTreeMap_values(self.gemeindeverbaende, "Gemeindeverband")
GemeindeDaten_iter_all(self) == BTreeMap_values(self.gemeinden, "Gemeinde")

(***************************************************************************)
(* IterChildrenOf impls (db.rs:434-484); range_key is key.into_range_key() *)
(***************************************************************************)
RegierungsbezirkDaten_iter_children_of(self, range_key) ==
    BTreeMap_range(self.regierungsbezirke, range_key, "Regierungsbezirk")
RegionDaten_iter_children_of(self, range_key) ==
    BTreeMap_range(self.regionen, range_key, "Region")
KreisDaten_iter_children_of(self, range_key) ==
    BTreeMap_range(self.kreise, range_key, "Kreis")
GemeindeverbandDaten_iter_children_of(self, range_key) ==
    BTreeMap_range(self.gemeindeverbaende, range_key, "Gemeindeverband")
GemeindeDaten_iter_children_of(self, range_key) ==
    BTreeMap_range(self.gemeinden, range_key, "Gemeinde")

(***************************************************************************)
(* Strings.  A str is the sequence of its characters; a character is a     *)
(* one-character string, and "U+00FC" stands for the two-byte character    *)
(* u-umlaut.  Lengths and slice bounds of str are in UTF-8 bytes.          *)
(***************************************************************************)
Digits == {"0", "1", "2", "3", "4", "5", "6", "7", "8", "9"}

DigitVal(c) ==
    CASE c = "0" -> 0 [] c = "1" -> 1 [] c = "2" -> 2 [] c = "3" -> 3 [] c = "4" -> 4
      [] c = "5" -> 5 [] c = "6" -> 6 [] c = "7" -> 7 [] c = "8" -> 8 [] c = "9" -> 9

DigitChar(d) == <<"0", "1", "2", "3", "4", "5", "6", "7", "8", "9">>[d + 1]

\* char::len_utf8
len_utf8(c) == IF c = "U+00FC" THEN 2 ELSE 1

\* the byte offset of the i-th character of s (of the end, for i = Len(s) + 1):
\* the sum of len_utf8 of the characters before it, each of one or two bytes
ByteOffset(s, i) ==
    (i - 1) + Cardinality({j \in 1..(i - 1) : len_utf8(s[j]) = 2})

\* str::len: the length in bytes
str_len(s) == ByteOffset(s, Len(s) + 1)

is_char_boundary(s, b) == \E i \in 1..(Len(s) + 1) : ByteOffset(s, i) = b

\* &s[a..b]: panics unless a <= b <= len and both lie on character boundaries
str_slice(s, a, b) ==
    IF a <= b /\ b <= str_len(s) /\ is_char_boundary(s, a) /\ is_char_boundary(s, b)
    THEN [tag |-> "Str",
          s |-> SubSeq(s, (CHOOSE i \in 1..(Len(s) + 1) : ByteOffset(s, i) = a),
                          (CHOOSE i \in 1..(Len(s) + 1) : ByteOffset(s, i) = b) - 1)]
    ELSE [tag |-> "Panic"]

\* the value of a sequence of decimal digits
RECURSIVE DigitsValue(_)
DigitsValue(s) ==
    IF s = <<>> THEN 0 ELSE 10 * DigitsValue(SubSeq(s, 1, Len(s) - 1)) + DigitVal(s[Len(s)])

\* the digits without their leading zeros
RECURSIVE SignificantDigits(_)
SignificantDigits(s) ==
    IF s # <<>> /\ s[1] = "0" THEN SignificantDigits(Tail(s)) ELSE s

\* <u8|u16 as FromStr>::from_str: an optional leading '+', then
\* decimal digits only; a '-' is an invalid digit; the value must fit
parse_unsigned(s, max) ==
    IF s = <<>> THEN [tag |-> "Err", kind |-> "Empty"]
    ELSE IF s = <<"+">> \/ s = <<"-">> THEN [tag |-> "Err", kind |-> "InvalidDigit"]
    ELSE LET digits == IF s[1] = "+" THEN Tail(s) ELSE s IN
         IF \E i \in DOMAIN digits : digits[i] \notin Digits
         THEN [tag |-> "Err", kind |-> "InvalidDigit"]
         ELSE IF Len(SignificantDigits(digits)) > 5 \/ DigitsValue(digits) > max
              THEN [tag |-> "Err", kind |-> "PosOverflow"]
              ELSE [tag |-> "Ok", val |-> DigitsValue(digits)]

\* the decimal digits of n
RECURSIVE Decimal(_)
Decimal(n) == IF n < 10 THEN <<DigitChar(n)>> ELSE Append(Decimal(n \div 10), DigitChar(n % 10))

RECURSIVE Fill(_, _)
Fill(c, n) == IF n <= 0 THEN <<>> ELSE <<c>> \o Fill(c, n - 1)

\* format!("{:0w$}", n): right-aligned, padded with zeros to the width
fmt_zero_padded(n, width) == Fill("0", width - Len(Decimal(n))) \o Decimal(n)

\* format!("{:w$}", n): right-aligned, padded with spaces to the width
fmt_width(n, width) == Fill(" ", width - Len(Decimal(n))) \o Decimal(n)

(***************************************************************************)
(* ParseKeyError (error.rs:27-51)                                          *)
(***************************************************************************)
Ok(v) == [tag |-> "Ok", val |-> v]
Err(e) == [tag |-> "Err", err |-> e]
Panic == [tag |-> "Panic"]

ParseKeyError_invalid_length(s, expected) ==
    [variant |-> "InvalidLength", expected |-> expected, got |-> str_len(s), s |-> s]

ParseKeyError_non_numeric(s) == [variant |-> "NonNumeric", s |-> s]

(***************************************************************************)
(* FromStr impls of the key types.  A parent key is parsed from a byte     *)
(* slice and its error is passed on by `?`; the local component is parsed  *)
(* as u8 or u16 and its error is mapped to non_numeric of the whole input. *)
(***************************************************************************)
LandSchluessel_from_str(s) ==
    IF str_len(s) # 2 THEN Err(ParseKeyError_invalid_length(s, 2))
    ELSE LET land == parse_unsigned(s, U8Max) IN
         IF land.tag = "Err" THEN Err(ParseKeyError_non_numeric(s))
         ELSE Ok(LandSchluessel_new(land.val))

\* X::new(parent, local) of the compound key type ty
Schluessel_new(ty, parent, local) ==
    CASE ty = "Regierungsbezirk" -> RegierungsbezirkSchluessel_new(parent, local)
      [] ty = "Region" -> RegionSchluessel_new(parent, local)
      [] ty = "Kreis" -> KreisSchluessel_new(parent, local)
      [] ty = "Gemeindeverband" -> GemeindeverbandSchluessel_new(parent, local)
      [] ty = "Regional" -> RegionalSchluessel_new(parent, local)
      [] ty = "Gemeinde" -> GemeindeSchluessel_new(parent, local)

\* the statements after the length check: head is the leading slice and
\* parent the parent key parsed from it (`?` passes its error on), rest is
\* the slice after it, parsed as the local component, its error mapped to
\* non_numeric of the whole input
KeyFromParts(ty, s, head, parent, rest, max) ==
    IF head.tag = "Panic" THEN Panic
    ELSE IF parent.tag # "Ok" THEN parent
    ELSE IF rest.tag = "Panic" THEN Panic
    ELSE LET n == parse_unsigned(rest.s, max) IN
         IF n.tag = "Err" THEN Err(ParseKeyError_non_numeric(s))
         ELSE Ok(Schluessel_new(ty, parent.val, n.val))

RegierungsbezirkSchluessel_from_str(s) ==
    IF str_len(s) # 3 THEN Err(ParseKeyError_invalid_length(s, 3))
    ELSE KeyFromParts("Regierungsbezirk", s, str_slice(s, 0, 2),
                      LandSchluessel_from_str(str_slice(s, 0, 2).s),
                      str_slice(s, 2, str_len(s)), U8Max)

RegionSchluessel_from_str(s) ==
    IF str_len(s) # 4 THEN Err(ParseKeyError_invalid_length(s, 4))
    ELSE KeyFromParts("Region", s, str_slice(s, 0, 3),
                      RegierungsbezirkSchluessel_from_str(str_slice(s, 0, 3).s),
                      str_slice(s, 3, str_len(s)), U8Max)

KreisSchluessel_from_str(s) ==
    IF str_len(s) # 5 THEN Err(ParseKeyError_invalid_length(s, 5))
    ELSE KeyFromParts("Kreis", s, str_slice(s, 0, 3),
                      RegierungsbezirkSchluessel_from_str(str_slice(s, 0, 3).s),
                      str_slice(s, 3, str_len(s)), U8Max)

GemeindeverbandSchluessel_from_str(s) ==
    IF str_len(s) # 9 THEN Err(ParseKeyError_invalid_length(s, 9))
    ELSE KeyFromParts("Gemeindeverband", s, str_slice(s, 0, 5),
                      KreisSchluessel_from_str(str_slice(s, 0, 5).s),
                      str_slice(s, 5, str_len(s)), U16Max)

RegionalSchluessel_from_str(s) ==
    IF str_len(s) # 8 THEN Err(ParseKeyError_invalid_length(s, 8))
    ELSE KeyFromParts("Regional", s, str_slice(s, 0, 5),
                      KreisSchluessel_from_str(str_slice(s, 0, 5).s),
                      str_slice(s, 5, str_len(s)), U16Max)

GemeindeSchluessel_from_str(s) ==
    IF str_len(s) # 12 THEN Err(ParseKeyError_invalid_length(s, 12))
    ELSE KeyFromParts("Gemeinde", s, str_slice(s, 0, 9),
                      GemeindeverbandSchluessel_from_str(str_slice(s, 0, 9).s),
                      str_slice(s, 9, str_len(s)), U16Max)

(***************************************************************************)
(* Display impls of the key types                                          *)
(***************************************************************************)
LandSchluessel_fmt(self) == fmt_zero_padded(self.land, 2)

RegierungsbezirkSchluessel_fmt(self) ==
    LandSchluessel_fmt(self.land) \o fmt_width(self.regierungsbezirk, 1)

RegionSchluessel_fmt(self) ==
    RegierungsbezirkSchluessel_fmt(self.regierungsbezirk) \o fmt_width(self.region, 1)

KreisSchluessel_fmt(self) ==
    RegierungsbezirkSchluessel_fmt(self.regierungsbezirk) \o fmt_width(self.kreis, 2)

GemeindeverbandSchluessel_fmt(self) ==
    KreisSchluessel_fmt(self.kreis) \o fmt_width(self.gemeindeverband, 4)

RegionalSchluessel_fmt(self) ==
    KreisSchluessel_fmt(self.kreis) \o fmt_width(self.gemeinde, 3)

GemeindeSchluessel_fmt(self) ==
    GemeindeverbandSchluessel_fmt(self.gemeindeverband) \o fmt_width(self.gemeinde, 3)

(***************************************************************************)
(* Error (error.rs:4-25)                                                   *)
(***************************************************************************)
\* Error::ParseInt, from the ParseIntError of an integer parse
Error_ParseInt(kind) == [variant |-> "ParseInt", kind |-> kind]

\* an error that carries the last digit of the code only
Error_InvalidType_last_digit(ty) == [variant |-> "InvalidType", ty |-> ty % 10]

Error_InvalidType(ty) == [variant |-> "InvalidType", ty |-> ty]

\* Error::ParseKey, from a ParseKeyError
Error_ParseKey(e) == [variant |-> "ParseKey", err |-> e]

(***************************************************************************)
(* Integer parsing other than u8 and u16                                   *)
(***************************************************************************)
\* <u32|u64 as FromStr>::from_str on a field of at most 11 characters, which
\* is too short to overflow
parse_unsigned_wide(s) ==
    IF s = <<>> THEN [tag |-> "Err", kind |-> "Empty"]
    ELSE IF s = <<"+">> \/ s = <<"-">> THEN [tag |-> "Err", kind |-> "InvalidDigit"]
    ELSE LET digits == IF s[1] = "+" THEN Tail(s) ELSE s IN
         IF \E i \in DOMAIN digits : digits[i] \notin Digits
         THEN [tag |-> "Err", kind |-> "InvalidDigit"]
         ELSE [tag |-> "Ok", val |-> DigitsValue(digits)]

\* <i32 as FromStr>::from_str on a slice of four characters: an optional
\* leading '+' or '-', then decimal digits only
parse_i32(s) ==
    IF s = <<>> THEN [tag |-> "Err", kind |-> "Empty"]
    ELSE IF s = <<"+">> \/ s = <<"-">> THEN [tag |-> "Err", kind |-> "InvalidDigit"]
    ELSE LET digits == IF s[1] \in {"+", "-"} THEN Tail(s) ELSE s IN
         IF \E i \in DOMAIN digits : digits[i] \notin Digits
         THEN [tag |-> "Err", kind |-> "InvalidDigit"]
         ELSE [tag |-> "Ok",
               val |-> IF s[1] = "-" THEN 0 - DigitsValue(digits) ELSE DigitsValue(digits)]

(***************************************************************************)
(* chrono::NaiveDate::from_ymd, which panics on a date that does not exist *)
(***************************************************************************)
is_leap_year(y) == y % 4 = 0 /\ (y % 100 # 0 \/ y % 400 = 0)

days_in_month(y, m) ==
    IF m \in {4, 6, 9, 11} THEN 30
    ELSE IF m = 2 THEN (IF is_leap_year(y) THEN 29 ELSE 28)
    ELSE 31

NaiveDate_from_ymd(y, m, d) ==
    IF m \in 1..12 /\ d >= 1 /\ d <= days_in_month(y, m)
    THEN Ok([year |-> y, month |-> m, day |-> d])
    ELSE Panic

(***************************************************************************)
(* parse_date (parser.rs:346-352): the arguments are evaluated in order,   *)
(* each a byte slice (which can panic) parsed with `?`.                    *)
(***************************************************************************)
parse_date(s) ==
    LET ys == str_slice(s, 0, 4) IN
    IF ys.tag = "Panic" THEN Panic ELSE
    LET y == parse_i32(ys.s) IN
    IF y.tag = "Err" THEN Err(Error_ParseInt(y.kind)) ELSE
    LET ms == str_slice(s, 4, 6) IN
    IF ms.tag = "Panic" THEN Panic ELSE
    LET m == parse_unsigned_wide(ms.s) IN
    IF m.tag = "Err" THEN Err(Error_ParseInt(m.kind)) ELSE
    LET ds == str_slice(s, 6, 8) IN
    IF ds.tag = "Panic" THEN Panic ELSE
    LET d == parse_unsigned_wide(ds.s) IN
    IF d.tag = "Err" THEN Err(Error_ParseInt(d.kind)) ELSE
    NaiveDate_from_ymd(y.val, m.val, d.val)

(***************************************************************************)
(* Gerichtbarkeit and Bundestagswahlkreise (gemeinde.rs:200-243)           *)
(***************************************************************************)
Gerichtbarkeit_from_str(s) ==
    LET a == str_slice(s, 0, 1)
        b == str_slice(s, 1, 2)
        c == str_slice(s, 2, 4)
    IN  IF a.tag = "Panic" \/ b.tag = "Panic" \/ c.tag = "Panic" THEN Panic
        ELSE Ok([oberlandesgericht |-> a.s, landgericht |-> b.s, amtsgericht |-> c.s])

Bundestagswahlkreise_from_str(s) ==
    LET vs == str_slice(s, 0, 3) IN
    IF vs.tag = "Panic" THEN Panic ELSE
    LET von == parse_unsigned(vs.s, U16Max) IN
    IF von.tag = "Err" THEN Err(Error_ParseInt(von.kind)) ELSE
    LET bis == str_slice(s, 3, str_len(s)) IN
    IF bis.tag = "Panic" THEN Panic
    ELSE IF \A i \in DOMAIN bis.s : bis.s[i] = " "
         THEN Ok([variant |-> "Single", von |-> von.val])
         ELSE LET b == parse_unsigned(bis.s, U16Max) IN
              IF b.tag = "Err" THEN Err(Error_ParseInt(b.kind))
              ELSE Ok([variant |-> "Range", von |-> von.val, bis |-> b.val])

(***************************************************************************)
(* FieldReader (parser.rs:25-86).  self is the rest of the line, the       *)
(* characters not yet read; the operators return the value and the reader  *)
(* after the call.                                                         *)
(***************************************************************************)
FieldReader_new(line) == line

\* a reader that returns nothing, and stays where it is, when fewer than n
\* characters are left
FieldReader_next_strict(self, n) ==
    IF n > Len(self) THEN [s |-> <<>>, self |-> self]
    ELSE [s |-> str_slice(self, 0, ByteOffset(self, n + 1)).s,
          self |-> SubSeq(self, n + 1, Len(self))]

\* a reader that stops after n bytes instead of n characters
FieldReader_next_n_bytes(self, n) ==
    LET k == CHOOSE i \in 0..Len(self) :
                 /\ ByteOffset(self, i + 1) <= n
                 /\ i < Len(self) => ByteOffset(self, i + 2) > n
    IN  [s |-> str_slice(self, 0, ByteOffset(self, k + 1)).s,
         self |-> SubSeq(self, k + 1, Len(self))]

\* chars.next() is Some in the first k iterations of the loop, k the smaller
\* of n and the number of characters left; nb is the sum of len_utf8 of the
\* characters taken, and the value is &s[0..nb]
FieldReader_next(self, n) ==
    LET k == IF n < Len(self) THEN n ELSE Len(self) IN
    [s |-> str_slice(self, 0, ByteOffset(self, k + 1)).s,
     self |-> SubSeq(self, k + 1, Len(self))]

\* absent when the slice starts with a space
FieldReader_next_opt_first_blank(self, n) ==
    LET r == FieldReader_next(self, n) IN
    [s |-> IF r.s # <<>> /\ r.s[1] = " " THEN None ELSE Some(r.s),
     self |-> r.self]

FieldReader_next_opt(self, n) ==
    LET r == FieldReader_next(self, n) IN
    [s |-> IF \A i \in DOMAIN r.s : r.s[i] = " " THEN None ELSE Some(r.s),
     self |-> r.self]

FieldReader_skip(self, n) == FieldReader_next(self, n).self

\* <T as FromStr>::from_str(s), its error converted to Error as `?` does
T_from_str(T, s) ==
    LET int(r) == IF r.tag = "Err" THEN Err(Error_ParseInt(r.kind)) ELSE Ok(r.val)
        key(r) == IF r.tag = "Err" THEN Err(Error_ParseKey(r.err)) ELSE r
    IN  CASE T = "u8" -> int(parse_unsigned(s, U8Max))
          [] T = "u16" -> int(parse_unsigned(s, U16Max))
          [] T \in {"u32", "u64"} -> int(parse_unsigned_wide(s))
          [] T = "Gerichtbarkeit" -> Gerichtbarkeit_from_str(s)
          [] T = "Bundestagswahlkreise" -> Bundestagswahlkreise_from_str(s)
          [] T = "LandSchluessel" -> key(LandSchluessel_from_str(s))
          [] T = "RegierungsbezirkSchluessel" -> key(RegierungsbezirkSchluessel_from_str(s))
          [] T = "RegionSchluessel" -> key(RegionSchluessel_from_str(s))
          [] T = "KreisSchluessel" -> key(KreisSchluessel_from_str(s))
          [] T = "RegionalSchluessel" -> key(RegionalSchluessel_from_str(s))

FieldReader_parse_next(self, n, T) ==
    LET r == FieldReader_next(self, n) IN
    [res |-> T_from_str(T, r.s), self |-> r.self]

\* Option::map(|s| s.parse()).transpose() for Some(s)
Option_transpose(p) == IF p.tag = "Ok" THEN Ok(Some(p.val)) ELSE p

FieldReader_parse_next_opt(self, n, T) ==
    LET r == FieldReader_next_opt(self, n) IN
    [res |-> IF r.s = None THEN Ok(None) ELSE Option_transpose(T_from_str(T, r.s.val)),
     self |-> r.self]

\* str::trim, the white space of the lines being the space
RECURSIVE trim(_)
trim(s) ==
    IF s = <<>> THEN s
    ELSE IF s[1] = " " THEN trim(Tail(s))
    ELSE IF s[Len(s)] = " " THEN trim(SubSeq(s, 1, Len(s) - 1))
    ELSE s

(***************************************************************************)
(* Parser::parse_line (parser.rs:120-341).  Each arm of the match reads    *)
(* its fields in order; a row below is one statement of the arm.  The      *)
(* fields of the arms 50 and 60 have the types that the tests of           *)
(* parser.rs compare them with: a key of Kreis and Gemeinde number for     *)
(* the eight-character schluessel, a number for gemeindeverband.           *)
(***************************************************************************)
Step(op, n, T, name) == [op |-> op, n |-> n, T |-> T, name |-> name]

DateStep == Step("date", 8, "NaiveDate", "gebietsstand")

ArmKind(ty) ==
    CASE ty = 10 -> "Land"
      [] ty = 20 -> "Regierungsbezirk"
      [] ty = 30 -> "Region"
      [] ty = 40 -> "Kreis"
      [] ty = 50 -> "Gemeindeverband"
      [] ty = 60 -> "Gemeinde"

ArmSteps(ty) ==
    CASE ty = 10 ->
           <<DateStep,
             Step("parse", 2, "LandSchluessel", "schluessel"),
             Step("skip", 10, "", ""),
             Step("trim", 50, "String", "name"),
             Step("trim", 50, "String", "sitz_regierung")>>
      [] ty = 20 ->
           <<DateStep,
             Step("parse", 3, "RegierungsbezirkSchluessel", "schluessel"),
             Step("skip", 9, "", ""),
             Step("trim", 50, "String", "name"),
             Step("trim", 50, "String", "sitz_verwaltung")>>
      [] ty = 30 ->
           <<DateStep,
             Step("parse", 4, "RegionSchluessel", "schluessel"),
             Step("trim", 50, "String", "name"),
             Step("trim", 50, "String", "sitz_verwaltung")>>
      [] ty = 40 ->
           <<DateStep,
             Step("parse", 5, "KreisSchluessel", "schluessel"),
             Step("skip", 7, "", ""),
             Step("trim", 50, "String", "name"),
             Step("trim", 50, "String", "sitz_verwaltung")>>
      [] ty = 50 ->
           <<DateStep,
             Step("parse", 5, "KreisSchluessel", "kreis_schluessel"),
             Step("skip", 3, "", ""),
             Step("parse", 4, "u16", "gemeindeverband"),
             Step("trim", 50, "String", "name"),
             Step("trim", 50, "String", "sitz_verwaltung")>>
      [] ty = 60 ->
           <<DateStep,
             Step("parse", 8, "RegionalSchluessel", "schluessel"),
             Step("parse", 4, "u16", "gemeindeverband"),
             Step("trim", 50, "String", "name"),
             Step("skip", 50, "", ""),
             Step("skip", 2, "", ""),
             Step("skip", 4, "", ""),
             Step("parse", 11, "u64", "area"),
             Step("parse", 11, "u64", "population_total"),
             Step("parse", 11, "u64", "population_male"),
             Step("skip", 4, "", ""),
             Step("owned", 5, "String", "plz"),
             Step("is_none", 5, "bool", "plz_unambiguous"),
             Step("skip", 2, "", ""),
             Step("parse_opt", 4, "u16", "finanzamtbezirk"),
             Step("parse_opt", 4, "Gerichtbarkeit", "gerichtbarkeit"),
             Step("parse_opt", 5, "u32", "arbeitsargenturbezirk"),
             Step("parse_opt", 6, "Bundestagswahlkreise", "bundestagswahlkreise")>>

\* one statement of an arm: the value or the error or panic it ends with,
\* and the reader after it
RunStep(st, fields) ==
    CASE st.op = "date" ->
           LET r == FieldReader_next(fields, st.n) IN
           [res |-> parse_date(r.s), self |-> r.self]
      [] st.op = "parse" -> FieldReader_parse_next(fields, st.n, st.T)
      [] st.op = "parse_opt" -> FieldReader_parse_next_opt(fields, st.n, st.T)
      [] st.op = "skip" -> [res |-> Ok(None), self |-> FieldReader_skip(fields, st.n)]
      [] st.op = "trim" ->
           LET r == FieldReader_next(fields, st.n) IN
           [res |-> Ok(trim(r.s)), self |-> r.self]
      [] st.op = "owned" ->
           LET r == FieldReader_next(fields, st.n) IN
           [res |-> Ok(r.s), self |-> r.self]
      [] st.op = "is_none" ->
           LET r == FieldReader_next_opt(fields, st.n) IN
           [res |-> Ok(r.s = None), self |-> r.self]

\* the statements from the i-th on; `?` returns at the first error, a
\* panic unwinds, and the struct is built of the values otherwise.  The
\* statement's outcome r is bound to its value before the rest is run.
RECURSIVE RunSteps(_, _, _, _)
RunSteps(steps, i, fields, daten) ==
    IF i > Len(steps) THEN Ok(daten)
    ELSE LET rest(r) ==
                 IF r.res.tag # "Ok" THEN r.res
                 ELSE RunSteps(steps, i + 1, r.self,
                               IF steps[i].op = "skip" THEN daten
                               ELSE (steps[i].name :> r.res.val) @@ daten)
         IN  CHOOSE out \in {rest(r) : r \in {RunStep(steps[i], fields)}} : TRUE

\* while buf.ends_with('\n') || buf.ends_with('\r') { buf.pop(); }
RECURSIVE strip_terminator(_)
strip_terminator(buf) ==
    IF buf # <<>> /\ buf[Len(buf)] \in {"\n", "\r"}
    THEN strip_terminator(SubSeq(buf, 1, Len(buf) - 1))
    ELSE buf

KnownTypes == {10, 20, 30, 40, 50, 60}

\* Ok(Some(record)) of the struct the arm built, or the arm's error or panic
Datensatz_of(kind, daten) ==
    IF daten.tag = "Ok" THEN Ok(Some([kind |-> kind, daten |-> daten.val])) ELSE daten

\* let ty = fields.parse_next::<u8>(2)?; match ty { .. }, with ty the outcome
\* of parse_next and the reader after it
match_ty(ty) ==
    IF ty.res.tag = "Err" THEN ty.res
    ELSE IF ty.res.val \in KnownTypes
         THEN Datensatz_of(ArmKind(ty.res.val),
                           RunSteps(ArmSteps(ty.res.val), 1, ty.self, <<>>))
         ELSE Err(Error_InvalidType(ty.res.val))

\* the result of decoding buf, the line without its terminator
decode_buf(buf) ==
    match_ty(FieldReader_parse_next(FieldReader_new(buf), 2, "u8"))

\* the result of decoding the line that read_line put in buf
decode_line(line) == decode_buf(strip_terminator(line))

\* self is the reader: the lines of the source not yet read, each with its
\* line terminator.  read_line returning 0 is the end of the source.
\* parse_line with the end of the source reported as an error
Parser_parse_line_eof_error(self) ==
    IF self = <<>> THEN [res |-> Err([tag |-> "Io"]), reader |-> self]
    ELSE [res |-> decode_line(Head(self)), reader |-> Tail(self)]

\* parse_line that leaves a line it fails to decode in the reader
Parser_parse_line_error_unread(self) ==
    IF self = <<>> THEN [res |-> Ok(None), reader |-> self]
    ELSE [res |-> decode_line(Head(self)),
          reader |-> IF decode_line(Head(self)).tag = "Err" THEN self ELSE Tail(self)]

Parser_parse_line(self) ==
    IF self = <<>> THEN [res |-> Ok(None), reader |-> self]
    ELSE [res |-> decode_line(Head(self)), reader |-> Tail(self)]

(***************************************************************************)
(* Database::children::<K, V> (db.rs:122-128) for each (K, V) pair that    *)
(* has an IntoRangeKey impl; Database::all and Database::get by kind.      *)
(***************************************************************************)
ChildPairs ==
    { <<"Land", "Regierungsbezirk">>, <<"Land", "Region">>, <<"Land", "Kreis">>,
      <<"Land", "Gemeindeverband">>, <<"Land", "Gemeinde">>,
      <<"Regierungsbezirk", "Region">>, <<"Regierungsbezirk", "Kreis">>,
      <<"Regierungsbezirk", "Gemeindeverband">>, <<"Regierungsbezirk", "Gemeinde">>,
      <<"Kreis", "Gemeindeverband">>, <<"Kreis", "Gemeinde">>,
      <<"Gemeindeverband", "Gemeinde">> }

IntoRangeKey(K, V, k) ==
    CASE K = "Land" /\ V = "Regierungsbezirk" -> Land_into_range_Regierungsbezirk(k)
      [] K = "Land" /\ V = "Region" -> Land_into_range_Region(k)
      [] K = "Land" /\ V = "Kreis" -> Land_into_range_Kreis(k)
      [] K = "Land" /\ V = "Gemeindeverband" -> Land_into_range_Gemeindeverband(k)
      [] K = "Land" /\ V = "Gemeinde" -> Land_into_range_Gemeinde(k)
      [] K = "Regierungsbezirk" /\ V = "Region" -> Regierungsbezirk_into_range_Region(k)
      [] K = "Regierungsbezirk" /\ V = "Kreis" -> Regierungsbezirk_into_range_Kreis(k)
      [] K = "Regierungsbezirk" /\ V = "Gemeindeverband" ->
           Regierungsbezirk_into_range_Gemeindeverband(k)
      [] K = "Regierungsbezirk" /\ V = "Gemeinde" ->
           Regierungsbezirk_into_range_Gemeinde(k)
      [] K = "Kreis" /\ V = "Gemeindeverband" -> Kreis_into_range_Gemeindeverband(k)
      [] K = "Kreis" /\ V = "Gemeinde" -> Kreis_into_range_Gemeinde(k)
      [] K = "Gemeindeverband" /\ V = "Gemeinde" -> Gemeindeverband_into_range_Gemeinde(k)

Database_children(self, K, V, k) ==
    LET r == IntoRangeKey(K, V, k) IN
    CASE V = "Regierungsbezirk" -> RegierungsbezirkDaten_iter_children_of(self, r)
      [] V = "Region" -> RegionDaten_iter_children_of(self, r)
      [] V = "Kreis" -> KreisDaten_iter_children_of(self, r)
      [] V = "Gemeindeverband" -> GemeindeverbandDaten_iter_children_of(self, r)
      [] V = "Gemeinde" -> GemeindeDaten_iter_children_of(self, r)

Database_all(self, V) ==
    CASE V = "Land" -> LandDaten_iter_all(self)
      [] V = "Regierungsbezirk" -> RegierungsbezirkDaten_iter_all(self)
      [] V = "Region" -> RegionDaten_iter_all(self)
      [] V = "Kreis" -> KreisDaten_iter_all(self)
      [] V = "Gemeindeverband" -> GemeindeverbandDaten_iter_all(self)
      [] V = "Gemeinde" -> GemeindeDaten_iter_all(self)

\* the (K, V) pairs with a Lookup<K> for V impl
LookupPairs ==
    { <<"Land", "Land">>, <<"Regierungsbezirk", "Land">>, <<"Region", "Land">>,
      <<"Kreis", "Land">>, <<"Gemeindeverband", "Land">>, <<"Gemeinde", "Land">>,
      <<"Regierungsbezirk", "Regierungsbezirk">>, <<"Region", "Regierungsbezirk">>,
      <<"Kreis", "Regierungsbezirk">>, <<"Gemeindeverband", "Regierungsbezirk">>,
      <<"Gemeinde", "Regierungsbezirk">>,
      <<"Region", "Region">>,
      <<"Kreis", "Kreis">>, <<"Gemeindeverband", "Kreis">>, <<"Gemeinde", "Kreis">>,
      <<"Gemeindeverband", "Gemeindeverband">>, <<"Gemeinde", "Gemeindeverband">>,
      <<"Gemeinde", "Gemeinde">>, <<"Regional", "Gemeinde">> }

Database_get(self, K, V, k) ==
    CASE V = "Land" /\ K = "Land" -> LandDaten_lookup_Land(k, self)
      [] V = "Land" /\ K = "Regierungsbezirk" -> LandDaten_lookup_Regierungsbezirk(k, self)
      [] V = "Land" /\ K = "Region" -> LandDaten_lookup_Region(k, self)
      [] V = "Land" /\ K = "Kreis" -> LandDaten_lookup_Kreis(k, self)
      [] V = "Land" /\ K = "Gemeindeverband" -> LandDaten_lookup_Gemeindeverband(k, self)
      [] V = "Land" /\ K = "Gemeinde" -> LandDaten_lookup_Gemeinde(k, self)
      [] V = "Regierungsbezirk" /\ K = "Regierungsbezirk" ->
           RegierungsbezirkDaten_lookup_Regierungsbezirk(k, self)
      [] V = "Regierungsbezirk" /\ K = "Region" ->
           RegierungsbezirkDaten_lookup_Region(k, self)
      [] V = "Regierungsbezirk" /\ K = "Kreis" ->
           RegierungsbezirkDaten_lookup_Kreis(k, self)
      [] V = "Regierungsbezirk" /\ K = "Gemeindeverband" ->
           RegierungsbezirkDaten_lookup_Gemeindeverband(k, self)
      [] V = "Regierungsbezirk" /\ K = "Gemeinde" ->
           RegierungsbezirkDaten_lookup_Gemeinde(k, self)
      [] V = "Region" /\ K = "Region" -> RegionDaten_lookup_Region(k, self)
      [] V = "Kreis" /\ K = "Kreis" -> KreisDaten_lookup_Kreis(k, self)
      [] V = "Kreis" /\ K = "Gemeindeverband" -> KreisDaten_lookup_Gemeindeverband(k, self)
      [] V = "Kreis" /\ K = "Gemeinde" -> KreisDaten_lookup_Gemeinde(k, self)
      [] V = "Gemeindeverband" /\ K = "Gemeindeverband" ->
           GemeindeverbandDaten_lookup_Gemeindeverband(k, self)
      [] V = "Gemeindeverband" /\ K = "Gemeinde" ->
           GemeindeverbandDaten_lookup_Gemeinde(k, self)
      [] V = "Gemeinde" /\ K = "Gemeinde" -> GemeindeDaten_lookup_Gemeinde(k, self)
      [] V = "Gemeinde" /\ K = "Regional" -> GemeindeDaten_lookup_Regional(k, self)

(***************************************************************************)
(* Key values.  Shorthands build a key from its numeric components.        *)
(***************************************************************************)
KLand(l) == LandSchluessel_new(l)
KRb(l, r) == RegierungsbezirkSchluessel_new(KLand(l), r)
KRegion(l, r, n) == RegionSchluessel_new(KRb(l, r), n)
KKreis(l, r, k) == KreisSchluessel_new(KRb(l, r), k)
KGv(l, r, k, v) == GemeindeverbandSchluessel_new(KKreis(l, r, k), v)
KGem(l, r, k, v, g) == GemeindeSchluessel_new(KGv(l, r, k, v), g)
KRegional(l, r, k, g) == RegionalSchluessel_new(KKreis(l, r, k), g)

Kinds == {"Land", "Regierungsbezirk", "Region", "Kreis", "Gemeindeverband", "Gemeinde"}

\* The keys of the records that are inserted: two Laender, with keys that
\* share and differ in every prefix, that use the components' extreme values
\* 0, 255 and 65535, and with two Gemeinden that share Kreis and number but
\* not the Gemeindeverband.
InsertKeys(kind) ==
    CASE kind = "Land" -> {KLand(10), KLand(255)}
      [] kind = "Regierungsbezirk" -> {KRb(10, 0), KRb(10, 255), KRb(255, 0)}
      [] kind = "Region" -> {KRegion(10, 0, 0), KRegion(10, 0, 255), KRegion(10, 255, 0)}
      [] kind = "Kreis" ->
           {KKreis(10, 0, 41), KKreis(10, 0, 255), KKreis(10, 255, 0), KKreis(255, 0, 41)}
      [] kind = "Gemeindeverband" ->
           {KGv(10, 0, 41, 100), KGv(10, 0, 41, 65535), KGv(10, 0, 255, 0),
            KGv(10, 255, 0, 100)}
      [] kind = "Gemeinde" ->
           {KGem(10, 0, 41, 100, 100), KGem(10, 0, 41, 65535, 100),
            KGem(10, 0, 41, 100, 65535), KGem(10, 0, 255, 0, 0),
            KGem(255, 0, 41, 100, 100)}

\* The keys queried: every combination of the component values above,
\* stored or not.
QLand == {10, 255}
QRb == {0, 255}
QRegion == {0, 255}
QKreis == {0, 41, 255}
QGv == {0, 100, 65535}
QGem == {0, 100, 65535}

QueryLandKeys == {KLand(l) : l \in QLand}
QueryRegierungsbezirkKeys == {KRb(l, r) : l \in QLand, r \in QRb}
QueryRegionKeys == {KRegion(l, r, n) : l \in QLand, r \in QRb, n \in QRegion}
QueryKreisKeys == {KKreis(l, r, k) : l \in QLand, r \in QRb, k \in QKreis}
QueryGemeindeverbandKeys ==
    {KGv(l, r, k, v) : l \in QLand, r \in QRb, k \in QKreis, v \in QGv}
QueryGemeindeKeys ==
    {KGem(l, r, k, v, g) : l \in QLand, r \in QRb, k \in QKreis, v \in QGv, g \in QGem}
QueryRegionalKeys ==
    {KRegional(l, r, k, g) : l \in QLand, r \in QRb, k \in QKreis, g \in QGem}

QueryKeys(kind) ==
    CASE kind = "Land" -> QueryLandKeys
      [] kind = "Regierungsbezirk" -> QueryRegierungsbezirkKeys
      [] kind = "Region" -> QueryRegionKeys
      [] kind = "Kreis" -> QueryKreisKeys
      [] kind = "Gemeindeverband" -> QueryGemeindeverbandKeys
      [] kind = "Gemeinde" -> QueryGemeindeKeys
      [] kind = "Regional" -> QueryRegionalKeys

(***************************************************************************)
(* Specification Spec: Database::insert called up to MaxInserts times.     *)
(* The n-th record inserted carries the name n, so that any two inserted   *)
(* records can be told apart.                                              *)
(***************************************************************************)
KeyIdle ==
    /\ keyPc = "idle"
    /\ keyTy = "Land"
    /\ keyIn = <<>>
    /\ keyOut = None
    /\ keyStr = None

OrdIdle ==
    /\ ordIn = None
    /\ ordOut = None

FieldIdle ==
    /\ fldLine = <<>>
    /\ fldRest = <<>>
    /\ fldOut = None
    /\ fldCalls = 0

QueryIdle == queryOut = None

PureIdle == OrdIdle /\ FieldIdle /\ QueryIdle

ParseIdle ==
    /\ reader = <<>>
    /\ lineRead = None
    /\ result = None
    /\ source = <<>>
    /\ calls = 0

Init ==
    /\ db = Database_default
    /\ log = <<>>
    /\ KeyIdle
    /\ ParseIdle
    /\ PureIdle

Insert ==
    /\ Len(log) < MaxInserts
    /\ \E kind \in Kinds : \E schluessel \in InsertKeys(kind) :
         LET datensatz == Datensatz(kind, schluessel, Len(log) + 1) IN
         /\ db' = Database_insert(db, datensatz)
         /\ log' = Append(log, datensatz)
    /\ UNCHANGED <<keyVars, parseVars, pureVars>>

Next == Insert

Spec == Init /\ [][Next]_vars

(***************************************************************************)
(* Vocabulary of the properties: a key as the flat tuple of its numeric    *)
(* components, state first; prefixes; the component-wise order.            *)
(***************************************************************************)
Comps(kind, k) ==
    CASE kind = "Land" -> <<k.land>>
      [] kind = "Regierungsbezirk" -> <<k.land.land, k.regierungsbezirk>>
      [] kind = "Region" ->
           <<k.regierungsbezirk.land.land, k.regierungsbezirk.regierungsbezirk, k.region>>
      [] kind = "Kreis" ->
           <<k.regierungsbezirk.land.land, k.regierungsbezirk.regierungsbezirk, k.kreis>>
      [] kind = "Gemeindeverband" ->
           <<k.kreis.regierungsbezirk.land.land,
             k.kreis.regierungsbezirk.regierungsbezirk, k.kreis.kreis, k.gemeindeverband>>
      [] kind = "Gemeinde" ->
           <<k.gemeindeverband.kreis.regierungsbezirk.land.land,
             k.gemeindeverband.kreis.regierungsbezirk.regierungsbezirk,
             k.gemeindeverband.kreis.kreis, k.gemeindeverband.gemeindeverband,
             k.gemeinde>>

\* the key of the kind with the components c
KeyOfComps(kind, c) ==
    CASE kind = "Land" -> KLand(c[1])
      [] kind = "Regierungsbezirk" -> KRb(c[1], c[2])
      [] kind = "Region" -> KRegion(c[1], c[2], c[3])
      [] kind = "Kreis" -> KKreis(c[1], c[2], c[3])
      [] kind = "Gemeindeverband" -> KGv(c[1], c[2], c[3], c[4])
      [] kind = "Gemeinde" -> KGem(c[1], c[2], c[3], c[4], c[5])

\* number of components of a key of the kind
LevelLen(kind) ==
    CASE kind = "Land" -> 1
      [] kind = "Regierungsbezirk" -> 2
      [] kind = "Region" -> 3
      [] kind = "Kreis" -> 3
      [] kind = "Gemeindeverband" -> 4
      [] kind = "Gemeinde" -> 5

\* the components of key k (of kind V) at the levels of kind K
PrefixAt(K, V, k) == SubSeq(Comps(V, k), 1, LevelLen(K))

\* s before t, comparing numerically at the first component where they differ
CompsLess(s, t) ==
    \E i \in 1..Len(s) :
        /\ i <= Len(t)
        /\ s[i] < t[i]
        /\ \A j \in 1..(i - 1) : s[j] = t[j]

MapOf(self, kind) ==
    CASE kind = "Land" -> self.laender
      [] kind = "Regierungsbezirk" -> self.regierungsbezirke
      [] kind = "Region" -> self.regionen
      [] kind = "Kreis" -> self.kreise
      [] kind = "Gemeindeverband" -> self.gemeindeverbaende
      [] kind = "Gemeinde" -> self.gemeinden

\* the entities of a kind that are stored
Stored(self, kind) == {MapOf(self, kind)[k] : k \in DOMAIN MapOf(self, kind)}

\* the stored entities of kind V below the key k of kind K
Descendants(self, K, V, k) ==
    {e \in Stored(self, V) : PrefixAt(K, V, e.schluessel) = Comps(K, k)}

SeqRange(q) == {q[i] : i \in DOMAIN q}

\* C1: after any sequence of inserts, children(k, V) yields exactly the
\* stored entities of kind V whose key has the components of k as its prefix,
\* for every pair (K, V) with children defined and every key k of kind K,
\* whether or not k itself is stored.
C1_ChildrenExact ==
    \A pair \in ChildPairs : \A k \in QueryKeys(pair[1]) :
        LET r == Database_children(db, pair[1], pair[2], k) IN
        /\ r.tag = "Iter"
        /\ SeqRange(r.items) = Descendants(db, pair[1], pair[2], k)

\* a Kreis key that is not stored has two stored Gemeinden below it, one of
\* them with the largest Gemeindeverband number, and a third Gemeinde of
\* another Kreis is stored
C1_Witness ==
    /\ KKreis(10, 0, 41) \notin DOMAIN db.kreise
    /\ {KGem(10, 0, 41, 100, 100), KGem(10, 0, 41, 65535, 100), KGem(10, 0, 255, 0, 0)}
         = DOMAIN db.gemeinden
    /\ Len(Database_children(db, "Kreis", "Gemeinde", KKreis(10, 0, 41)).items) = 2

\* the last record of the log with the kind and key, as an Option
LastWrite(kind, k) ==
    LET idx == {i \in DOMAIN log : log[i].kind = kind /\ log[i].daten.schluessel = k}
    IN  IF idx = {} THEN None
        ELSE Some(log[CHOOSE i \in idx : \A j \in idx : j <= i].daten)

LastWrites(kind) ==
    {LastWrite(kind, k).val :
        k \in {log[i].daten.schluessel : i \in {j \in DOMAIN log : log[j].kind = kind}}}

\* C2: last write wins.  For every kind and key, get returns the record of
\* the latest insert with that kind and key (None if there is none); all and
\* children return only such latest records; the map has one entry per key.
C2_LastWriteWins ==
    /\ \A kind \in Kinds : \A k \in QueryKeys(kind) :
           Database_get(db, kind, kind, k) = LastWrite(kind, k)
    /\ \A kind \in Kinds :
           /\ SeqRange(Database_all(db, kind)) = LastWrites(kind)
           /\ Len(Database_all(db, kind)) = Cardinality(LastWrites(kind))
           /\ Cardinality(DOMAIN MapOf(db, kind)) = Cardinality(LastWrites(kind))
    /\ \A pair \in ChildPairs : \A k \in QueryKeys(pair[1]) :
           SeqRange(Database_children(db, pair[1], pair[2], k).items)
               \subseteq LastWrites(pair[2])

\* the same Gemeinde key is inserted first and third, another key in between
C2_Witness ==
    /\ Len(log) = 3
    /\ log[1].kind = "Gemeinde" /\ log[3].kind = "Gemeinde" /\ log[2].kind = "Gemeinde"
    /\ log[1].daten.schluessel = log[3].daten.schluessel
    /\ log[2].daten.schluessel # log[1].daten.schluessel
    /\ GemeindeDaten_lookup_Gemeinde(log[1].daten.schluessel, db) = Some(log[3].daten)

\* C3: get of an entity of kind V by a key k of a finer kind K gives the
\* same result as get by the key p of kind V whose components are the
\* prefix of k: the same entity or None, whatever is stored under k.
C3_GetByFinerKey ==
    \A pair \in LookupPairs :
        pair[1] \notin {pair[2], "Regional"} =>
            \A k \in QueryKeys(pair[1]) :
                Database_get(db, pair[1], pair[2], k)
                    = Database_get(db, pair[2], pair[2],
                                   KeyOfComps(pair[2], PrefixAt(pair[2], pair[1], k)))

\* Land 10 is stored and no Gemeinde is, and get by a Gemeinde key finds it
C3_Witness ==
    /\ KLand(10) \in DOMAIN db.laender
    /\ DOMAIN db.gemeinden = {}
    /\ LandDaten_lookup_Gemeinde(KGem(10, 0, 41, 100, 100), db).tag = "Some"
    /\ LandDaten_lookup_Gemeinde(KGem(255, 0, 41, 100, 100), db) = None

\* C4: get of a Gemeinde by the alternate key (Kreis + Gemeinde number)
\* returns a stored Gemeinde with that Kreis and number if one was ever
\* inserted, and None otherwise.
C4_GetByRegionalSchluessel ==
    \A rk \in QueryKeys("Regional") :
        LET r == Database_get(db, "Regional", "Gemeinde", rk)
            inserted ==
                \E i \in DOMAIN log :
                    /\ log[i].kind = "Gemeinde"
                    /\ PrefixAt("Kreis", "Gemeinde", log[i].daten.schluessel)
                           = Comps("Kreis", rk.kreis)
                    /\ log[i].daten.schluessel.gemeinde = rk.gemeinde
        IN  IF inserted
            THEN /\ r.tag = "Some"
                 /\ r.val \in Stored(db, "Gemeinde")
                 /\ PrefixAt("Kreis", "Gemeinde", r.val.schluessel)
                        = Comps("Kreis", rk.kreis)
                 /\ r.val.schluessel.gemeinde = rk.gemeinde
            ELSE r = None

\* only the Gemeinde with Gemeindeverband 65535 is stored for its alternate
\* key; it is found, and a Gemeinde number never inserted is not
C4_Witness ==
    /\ DOMAIN db.gemeinden = {KGem(10, 0, 41, 65535, 100), KGem(10, 0, 255, 0, 0)}
    /\ Database_get(db, "Regional", "Gemeinde", KRegional(10, 0, 41, 100)).tag = "Some"
    /\ Database_get(db, "Regional", "Gemeinde", KRegional(10, 0, 41, 0)) = None

Ascending(kind, q) ==
    \A i, j \in DOMAIN q :
        i < j => CompsLess(Comps(kind, q[i].schluessel), Comps(kind, q[j].schluessel))

\* C5: all(kind) and children(k, kind) yield each stored matching entity
\* exactly once, in strictly ascending component-wise key order, whatever the
\* order of the inserts.
C5_AscendingOnce ==
    /\ \A kind \in Kinds :
           LET q == Database_all(db, kind) IN
           /\ SeqRange(q) = Stored(db, kind)
           /\ Len(q) = Cardinality(Stored(db, kind))
           /\ Ascending(kind, q)
    /\ \A pair \in ChildPairs : \A k \in QueryKeys(pair[1]) :
           LET q == Database_children(db, pair[1], pair[2], k).items IN
           /\ SeqRange(q) = Descendants(db, pair[1], pair[2], k)
           /\ Len(q) = Cardinality(Descendants(db, pair[1], pair[2], k))
           /\ Ascending(pair[2], q)

\* three Gemeinden of one Kreis inserted in descending key order
C5_Witness ==
    /\ Len(log) = 3
    /\ \A i \in 1..3 : log[i].kind = "Gemeinde"
    /\ GemeindeLt(log[3].daten.schluessel, log[2].daten.schluessel)
    /\ GemeindeLt(log[2].daten.schluessel, log[1].daten.schluessel)
    /\ Len(Database_children(db, "Kreis", "Gemeinde", KKreis(10, 0, 41)).items) = 3
    /\ Len(Database_all(db, "Gemeinde")) = 3

\* the database after the inserts of the records, in order
RECURSIVE InsertAll(_)
InsertAll(records) ==
    IF records = <<>> THEN Database_default
    ELSE Database_insert(InsertAll(SubSeq(records, 1, Len(records) - 1)),
                         records[Len(records)])

\* the records with those at the positions i and i + 1 exchanged
Swapped(records, i) ==
    [j \in DOMAIN records |->
        IF j = i THEN records[i + 1]
        ELSE IF j = i + 1 THEN records[i]
        ELSE records[j]]

\* every get, all and children call gives the same result on a and on b
SameResults(a, b) ==
    /\ \A pair \in LookupPairs : \A k \in QueryKeys(pair[1]) :
         Database_get(a, pair[1], pair[2], k) = Database_get(b, pair[1], pair[2], k)
    /\ \A V \in Kinds : Database_all(a, V) = Database_all(b, V)
    /\ \A pair \in ChildPairs : \A k \in QueryKeys(pair[1]) :
         Database_children(a, pair[1], pair[2], k)
             = Database_children(b, pair[1], pair[2], k)

SameKindAndKey(d1, d2) ==
    d1.kind = d2.kind /\ d1.daten.schluessel = d2.daten.schluessel

\* two Gemeinden with the same Kreis and Gemeinde number
SameAlternateKey(d1, d2) ==
    /\ d1.kind = "Gemeinde"
    /\ d2.kind = "Gemeinde"
    /\ d1.daten.schluessel.gemeindeverband.kreis
           = d2.daten.schluessel.gemeindeverband.kreis
    /\ d1.daten.schluessel.gemeinde = d2.daten.schluessel.gemeinde

\* C13 (as stated): exchanging two adjacent inserts whose kind or key differ
\* gives a database with the same result for every get (by canonical and by
\* alternate key), all and children call.
C13_SwapDistinctKeys ==
    \A i \in 1..(Len(log) - 1) :
        ~SameKindAndKey(log[i], log[i + 1])
            => SameResults(db, InsertAll(Swapped(log, i)))

\* C13 (amended): exchanging two adjacent inserts whose kind or key differ,
\* and that are not two Gemeinden with the same Kreis and Gemeinde number,
\* gives the same database, hence the same result for every get, all and
\* children call.
C13_SwapIndependent ==
    \A i \in 1..(Len(log) - 1) :
        ~SameKindAndKey(log[i], log[i + 1]) /\ ~SameAlternateKey(log[i], log[i + 1])
            => db = InsertAll(Swapped(log, i))

\* a Gemeinde was inserted twice, then another Gemeinde of its Kreis with a
\* different number; exchanging the last two leaves the database as it is,
\* exchanging the first two does not
C13_Witness ==
    /\ Len(log) = 3
    /\ \A i \in 1..3 : log[i].kind = "Gemeinde"
    /\ log[1].daten.schluessel = KGem(10, 0, 41, 100, 100)
    /\ log[2].daten.schluessel = KGem(10, 0, 41, 100, 100)
    /\ log[3].daten.schluessel = KGem(10, 0, 41, 100, 65535)
    /\ db = InsertAll(Swapped(log, 2))
    /\ db # InsertAll(Swapped(log, 1))

\* C20: no deletion.  Every insert leaves every key of every kind stored
\* and retrievable by get, with the entity it had unless the insert is of
\* that kind and key; it leaves every alternate key in the secondary index
\* and retrievable; so the sets of keys per kind and of alternate keys only
\* grow.
C20_NoDeletion ==
    [][ /\ \A kind \in Kinds : \A k \in DOMAIN MapOf(db, kind) :
             /\ k \in DOMAIN MapOf(db', kind)
             /\ Database_get(db', kind, kind, k).tag = "Some"
             /\ \/ Database_get(db', kind, kind, k) = Database_get(db, kind, kind, k)
                \/ /\ log'[Len(log')].kind = kind
                   /\ log'[Len(log')].daten.schluessel = k
                   /\ Database_get(db', kind, kind, k) = Some(log'[Len(log')].daten)
        /\ \A rk \in DOMAIN db.gemeindeverband_schluessel :
             /\ rk \in DOMAIN db'.gemeindeverband_schluessel
             /\ Database_get(db', "Regional", "Gemeinde", rk).tag = "Some"
      ]_vars

\* a Kreis and a Gemeinde were inserted, then the Gemeinde again under a
\* different Gemeindeverband: three keys and one alternate key are stored
C20_Witness ==
    /\ Len(log) = 3
    /\ log[1].kind = "Kreis"
    /\ log[2].kind = "Gemeinde"
    /\ log[3].kind = "Gemeinde"
    /\ log[2].daten.schluessel = KGem(10, 0, 41, 100, 100)
    /\ log[3].daten.schluessel = KGem(10, 0, 41, 65535, 100)
    /\ Cardinality(DOMAIN db.kreise) = 1
    /\ Cardinality(DOMAIN db.gemeinden) = 2
    /\ Cardinality(DOMAIN db.gemeindeverband_schluessel) = 1

\* the i-th record of log is the last Gemeinde of log with its
\* RegionalSchluessel
LastOfRegional(i) ==
    \A j \in (i + 1)..Len(log) :
        log[j].kind = "Gemeinde" =>
            Regional_from_Gemeinde(log[j].daten.schluessel)
                # Regional_from_Gemeinde(log[i].daten.schluessel)

\* C27: the index gemeindeverband_schluessel and the map gemeinden agree.
\* A RegionalSchluessel (Kreis and Gemeinde number) is a key of the index
\* exactly when a stored Gemeinde has that Kreis and that number; and for
\* every entry of the index, the GemeindeSchluessel of its Kreis, the
\* Gemeindeverband number it holds and its Gemeinde number is a key of
\* gemeinden.
C27_IndexAgrees ==
    /\ DOMAIN db.gemeindeverband_schluessel
         = {Regional_from_Gemeinde(g) : g \in DOMAIN db.gemeinden}
    /\ \A r \in DOMAIN db.gemeindeverband_schluessel :
         GemeindeSchluessel_new(
             GemeindeverbandSchluessel_new(r.kreis, db.gemeindeverband_schluessel[r]),
             r.gemeinde) \in DOMAIN db.gemeinden

\* three Gemeinden are stored, two of them with one Kreis and Gemeinde
\* number, so that the index has two entries
C27_Witness ==
    /\ Cardinality(DOMAIN db.gemeinden) = 3
    /\ Cardinality(DOMAIN db.gemeindeverband_schluessel) = 2

\* the Gemeinde records of log at i and j have one Kreis and Gemeinde number
\* and two Gemeindeverband numbers
SharedRegional(i, j) ==
    /\ log[i].kind = "Gemeinde"
    /\ log[j].kind = "Gemeinde"
    /\ Regional_from_Gemeinde(log[i].daten.schluessel)
         = Regional_from_Gemeinde(log[j].daten.schluessel)
    /\ log[i].daten.schluessel # log[j].daten.schluessel

\* the Gemeinde stored under the key is returned by get with the key, by
\* all, and by children of each of its ancestors
Retrievable(schluessel) ==
    /\ LastWrite("Gemeinde", schluessel) # None
    /\ Database_get(db, "Gemeinde", "Gemeinde", schluessel)
         = LastWrite("Gemeinde", schluessel)
    /\ LastWrite("Gemeinde", schluessel).val \in SeqRange(Database_all(db, "Gemeinde"))
    /\ \A K \in {"Land", "Regierungsbezirk", "Kreis", "Gemeindeverband"} :
         LastWrite("Gemeinde", schluessel).val
           \in SeqRange(Database_children(db, K, "Gemeinde",
                                          KeyOfComps(K, PrefixAt(K, "Gemeinde", schluessel))).items)

\* C28: two Gemeinden with one Kreis and Gemeinde number and different
\* Gemeindeverband numbers are two entries: each is returned by get with its
\* GemeindeSchluessel, by all and by children; get with the
\* RegionalSchluessel they share returns the one inserted last.
C28_SharedAlternateKey ==
    \A i \in 1..Len(log) : \A j \in (i + 1)..Len(log) :
        SharedRegional(i, j) =>
            /\ Retrievable(log[i].daten.schluessel)
            /\ Retrievable(log[j].daten.schluessel)
            /\ Database_get(db, "Gemeinde", "Gemeinde", log[i].daten.schluessel)
                 # Database_get(db, "Gemeinde", "Gemeinde", log[j].daten.schluessel)
            /\ LastOfRegional(j) =>
                 Database_get(db, "Regional", "Gemeinde",
                              Regional_from_Gemeinde(log[j].daten.schluessel))
                   = Some(log[j].daten)

\* Gemeinde 100 of Kreis 10041 was inserted under Gemeindeverband 100 and
\* then under Gemeindeverband 65535; both are children of the Kreis, and
\* the RegionalSchluessel gives the second
C28_Witness ==
    /\ Len(log) = 2
    /\ SharedRegional(1, 2)
    /\ log[1].daten.schluessel = KGem(10, 0, 41, 100, 100)
    /\ log[2].daten.schluessel = KGem(10, 0, 41, 65535, 100)
    /\ Len(Database_children(db, "Kreis", "Gemeinde", KKreis(10, 0, 41)).items) = 2
    /\ Database_get(db, "Regional", "Gemeinde", KRegional(10, 0, 41, 100))
         = Some(log[2].daten)

\* the maps a and b differ at most in the entry of the key k
SameBut(a, b, k) ==
    /\ DOMAIN b \in {DOMAIN a, DOMAIN a \cup {k}}
    /\ \A x \in DOMAIN a \ {k} : b[x] = a[x]

\* the queries that return entities of kind V give the same results on the
\* databases a and b
SameQueries(a, b, V) ==
    /\ Database_all(a, V) = Database_all(b, V)
    /\ \A pair \in LookupPairs :
         pair[2] = V =>
             \A k \in QueryKeys(pair[1]) :
                 Database_get(a, pair[1], V, k) = Database_get(b, pair[1], V, k)
    /\ \A pair \in ChildPairs :
         pair[2] = V =>
             \A k \in QueryKeys(pair[1]) :
                 Database_children(a, pair[1], V, k) = Database_children(b, pair[1], V, k)

\* C29: an insert of a record of kind K changes the entry of the record's
\* key in the map of K and, for a Gemeinde, the entry of its
\* RegionalSchluessel in the index; every other entry of that map, every
\* other map and the rest of the index stay as they are, so that no query
\* for entities of another kind changes its result: an insert of a Region
\* changes no query for a Land, Regierungsbezirk, Kreis, Gemeindeverband or
\* Gemeinde, and an insert of one of these changes no query for a Region.
C29_InsertFrame ==
    [][Len(log') = Len(log) + 1 =>
         /\ \A kind \in Kinds \ {log'[Len(log')].kind} :
              MapOf(db', kind) = MapOf(db, kind)
         /\ SameBut(MapOf(db, log'[Len(log')].kind), MapOf(db', log'[Len(log')].kind),
                    log'[Len(log')].daten.schluessel)
         /\ IF log'[Len(log')].kind = "Gemeinde"
            THEN SameBut(db.gemeindeverband_schluessel, db'.gemeindeverband_schluessel,
                         Regional_from_Gemeinde(log'[Len(log')].daten.schluessel))
            ELSE db'.gemeindeverband_schluessel = db.gemeindeverband_schluessel
         /\ \A V \in Kinds \ {log'[Len(log')].kind} : SameQueries(db, db', V)]_vars

\* a Region was inserted into a database that holds a Kreis and a Gemeinde
\* of the Regierungsbezirk of the Region
C29_Witness ==
    /\ Len(log) = 3
    /\ log[3].kind = "Region"
    /\ log[3].daten.schluessel = KRegion(10, 0, 0)
    /\ DOMAIN db.kreise = {KKreis(10, 0, 41)}
    /\ DOMAIN db.gemeinden = {KGem(10, 0, 41, 100, 100)}
    /\ DOMAIN db.regionen = {KRegion(10, 0, 0)}

\* the entities that children returns for the key k of kind K
ChildrenOf(K, V, k) == SeqRange(Database_children(db, K, V, k).items)

\* children(keys[i], V), children(keys[i + 1], V), ... one after the other
RECURSIVE ConcatChildren(_, _, _, _)
ConcatChildren(K, V, keys, i) ==
    IF i > Len(keys) THEN <<>>
    ELSE Database_children(db, K, V, keys[i]).items \o ConcatChildren(K, V, keys, i + 1)

\* the Kreis keys of a Land, ascending
KreiseOf(land) ==
    SortedKeys({k \in QueryKeys("Kreis") : PrefixAt("Land", "Kreis", k) = Comps("Land", land)},
               "Kreis")

\* C30: for every pair (K, V) with children defined, children partitions
\* the stored entities of kind V by their ancestor of kind K: the children
\* of two distinct keys of kind K have no entity in common, and every
\* stored entity of kind V is among the children of exactly one key of kind
\* K, the one with the components of its own key.  The Gemeinden below a
\* Land are those below its Kreis keys, in ascending order of the Kreis
\* keys, one after the other.
C30_ChildrenPartition ==
    /\ \A pair \in ChildPairs :
         /\ \A k1 \in QueryKeys(pair[1]) : \A e \in ChildrenOf(pair[1], pair[2], k1) :
                \A k2 \in QueryKeys(pair[1]) \ {k1} :
                    e \notin ChildrenOf(pair[1], pair[2], k2)
         /\ \A e \in Stored(db, pair[2]) :
                {k \in QueryKeys(pair[1]) : e \in ChildrenOf(pair[1], pair[2], k)}
                  = {KeyOfComps(pair[1], PrefixAt(pair[1], pair[2], e.schluessel))}
    /\ \A land \in QueryKeys("Land") :
         Database_children(db, "Land", "Gemeinde", land).items
           = ConcatChildren("Kreis", "Gemeinde", KreiseOf(land), 1)

\* the three Gemeinden of Land 10 are the two of Kreis 10041 followed by the
\* one of Kreis 100255
C30_Witness ==
    /\ Len(Database_children(db, "Land", "Gemeinde", KLand(10)).items) = 3
    /\ Len(Database_children(db, "Kreis", "Gemeinde", KKreis(10, 0, 41)).items) = 2
    /\ Len(Database_children(db, "Kreis", "Gemeinde", KKreis(10, 0, 255)).items) = 1
    /\ Database_children(db, "Land", "Gemeinde", KLand(10)).items[3].schluessel
         = KGem(10, 0, 255, 0, 0)

(***************************************************************************)
(* Specification SpecKey: one key type's from_str applied to an input      *)
(* string, then Display applied to the parsed key.                         *)
(***************************************************************************)
KeyTypes ==
    {"Land", "Regierungsbezirk", "Region", "Kreis", "Gemeindeverband", "Gemeinde",
     "Regional"}

\* the total digit width of a key type
KeyWidth(ty) ==
    CASE ty = "Land" -> 2
      [] ty = "Regierungsbezirk" -> 3
      [] ty = "Region" -> 4
      [] ty = "Kreis" -> 5
      [] ty = "Gemeindeverband" -> 9
      [] ty = "Gemeinde" -> 12
      [] ty = "Regional" -> 8

FromStr(ty, s) ==
    CASE ty = "Land" -> LandSchluessel_from_str(s)
      [] ty = "Regierungsbezirk" -> RegierungsbezirkSchluessel_from_str(s)
      [] ty = "Region" -> RegionSchluessel_from_str(s)
      [] ty = "Kreis" -> KreisSchluessel_from_str(s)
      [] ty = "Gemeindeverband" -> GemeindeverbandSchluessel_from_str(s)
      [] ty = "Gemeinde" -> GemeindeSchluessel_from_str(s)
      [] ty = "Regional" -> RegionalSchluessel_from_str(s)

Display(ty, k) ==
    CASE ty = "Land" -> LandSchluessel_fmt(k)
      [] ty = "Regierungsbezirk" -> RegierungsbezirkSchluessel_fmt(k)
      [] ty = "Region" -> RegionSchluessel_fmt(k)
      [] ty = "Kreis" -> KreisSchluessel_fmt(k)
      [] ty = "Gemeindeverband" -> GemeindeverbandSchluessel_fmt(k)
      [] ty = "Gemeinde" -> GemeindeSchluessel_fmt(k)
      [] ty = "Regional" -> RegionalSchluessel_fmt(k)

\* Input strings: all-digit strings of the exact width, built from component
\* strings with and without leading zeros, and each of them with one
\* character replaced by a non-digit, with its last character dropped, or
\* with one more digit.
LandStrs == {<<"1", "0">>, <<"0", "5">>, <<"9", "9">>}
RbStrs == {<<"0">>, <<"9">>}
RegionStrs == {<<"1">>}
KreisStrs == {<<"4", "1">>, <<"0", "5">>}
GvStrs == {<<"0", "1", "0", "0">>, <<"9", "9", "9", "9">>}
GemStrs == {<<"1", "0", "0">>, <<"0", "0", "7">>}

NonDigits == {"a", " ", "+", "-", "U+00FC"}

DigitInputs(ty) ==
    CASE ty = "Land" -> LandStrs
      [] ty = "Regierungsbezirk" -> {l \o r : l \in LandStrs, r \in RbStrs}
      [] ty = "Region" -> {l \o r \o n : l \in LandStrs, r \in RbStrs, n \in RegionStrs}
      [] ty = "Kreis" -> {l \o r \o k : l \in LandStrs, r \in RbStrs, k \in KreisStrs}
      [] ty = "Gemeindeverband" ->
           {l \o r \o k \o v : l \in {<<"1", "0">>, <<"0", "5">>}, r \in RbStrs,
                               k \in KreisStrs, v \in GvStrs}
      [] ty = "Gemeinde" ->
           {l \o r \o k \o v \o g : l \in {<<"1", "0">>, <<"0", "5">>}, r \in RbStrs,
                                    k \in KreisStrs, v \in GvStrs, g \in GemStrs}
      [] ty = "Regional" ->
           {l \o r \o k \o g : l \in {<<"1", "0">>, <<"0", "5">>}, r \in RbStrs,
                               k \in KreisStrs, g \in GemStrs}

KeyInputs(ty) ==
    LET base == DigitInputs(ty)
        short == {SubSeq(s, 1, Len(s) - 1) : s \in base}
        long == {Append(s, "0") : s \in base}
        replaced(S) == {[s EXCEPT ![i] = c] : s \in S, i \in 1..KeyWidth(ty) - 1,
                                              c \in NonDigits}
    IN  base \cup short \cup long \cup {<<>>}
          \cup {[s EXCEPT ![i] = c] : s \in base, i \in 1..KeyWidth(ty), c \in NonDigits}
          \cup replaced(short)

DbIdle ==
    /\ db = Database_default
    /\ log = <<>>

InitKey ==
    /\ DbIdle
    /\ keyPc = "start"
    /\ keyTy \in KeyTypes
    /\ keyIn \in KeyInputs(keyTy)
    /\ keyOut = None
    /\ keyStr = None
    /\ ParseIdle
    /\ PureIdle

\* let key = keyIn.parse::<keyTy>()
KeyParse ==
    /\ keyPc = "start"
    /\ keyOut' = FromStr(keyTy, keyIn)
    /\ keyPc' = "parsed"
    /\ UNCHANGED <<keyTy, keyIn, keyStr, dbVars, parseVars, pureVars>>

\* key.to_string(), when the parse returned a key
KeyDisplay ==
    /\ keyPc = "parsed"
    /\ keyOut.tag = "Ok"
    /\ keyStr' = Some(Display(keyTy, keyOut.val))
    /\ keyPc' = "shown"
    /\ UNCHANGED <<keyTy, keyIn, keyOut, dbVars, parseVars, pureVars>>

NextKey == KeyParse \/ KeyDisplay

SpecKey == InitKey /\ [][NextKey]_vars

AllDigits(s) == \A i \in DOMAIN s : s[i] \in Digits

\* C6: for every key type and every all-digit string of exactly its width,
\* parsing succeeds and displaying the parsed key yields the string again,
\* every component zero-padded to its width.
C6_RoundTrip ==
    (AllDigits(keyIn) /\ Len(keyIn) = KeyWidth(keyTy)) =>
        /\ keyPc # "start" => keyOut.tag = "Ok"
        /\ keyPc = "shown" => keyStr = Some(keyIn)

\* C7: a string whose length (its number of characters) differs from the
\* key type's width is rejected with InvalidLength carrying the expected
\* width, the length of the whole input and the whole input; no key is
\* produced.
C7_LengthMismatch ==
    (keyPc # "start" /\ Len(keyIn) # KeyWidth(keyTy)) =>
        keyOut = Err([variant |-> "InvalidLength",
                      expected |-> KeyWidth(keyTy),
                      got |-> Len(keyIn),
                      s |-> keyIn])

\* C8: a string of the correct length with a character that is not a
\* decimal digit is rejected with NonNumeric: no key, no panic.
C8_NonNumeric ==
    (keyPc # "start" /\ Len(keyIn) = KeyWidth(keyTy) /\ ~AllDigits(keyIn)) =>
        (keyOut.tag = "Err" /\ keyOut.err.variant = "NonNumeric")

(***************************************************************************)
(* Specification SpecParse: a Parser over a source of lines, parse_line    *)
(* called until the end of the source.                                     *)
(***************************************************************************)
\* number of lines of the source
MaxLines == 2

Chars(n) == Fill(" ", n)

\* text, space-padded to a field of n characters
Pad(text, n) == text \o Fill(" ", n - Len(text))

Saarland == <<"S", "a", "a", "r", "l", "a", "n", "d">>
Saarbruecken == <<"S", "a", "a", "r", "b", "r", "U+00FC", "c", "k", "e", "n">>

\* a well-formed rest of a line of the type, after type and date
LineRest(ty) ==
    CASE ty = <<"1", "0">> -> <<"1", "0">> \o Chars(10) \o Pad(Saarland, 50) \o Pad(Saarbruecken, 50)
      [] ty = <<"2", "0">> -> <<"0", "5", "1">> \o Chars(9) \o Pad(Saarland, 50) \o Pad(Saarbruecken, 50)
      [] ty = <<"3", "0">> -> <<"0", "8", "1", "1">> \o Pad(Saarland, 50) \o Pad(Saarbruecken, 50)
      [] ty = <<"4", "0">> ->
           <<"1", "0", "0", "4", "1">> \o Chars(7) \o Pad(Saarbruecken, 50)
             \o Pad(Saarbruecken, 50)
      [] ty = <<"5", "0">> ->
           <<"1", "0", "0", "4", "1">> \o Chars(3) \o <<"0", "1", "0", "0">>
             \o Pad(Saarbruecken, 50) \o Chars(50)
      [] ty = <<"6", "0">> ->
           <<"1", "0", "0", "4", "1", "1", "0", "0">> \o <<"0", "1", "0", "0">>
             \o Pad(Saarbruecken, 50) \o Chars(50) \o <<"6", "3">> \o Chars(4)
             \o <<"0", "0", "0", "0", "0", "0", "1", "6", "7", "5", "2">>
             \o <<"0", "0", "0", "0", "0", "1", "8", "0", "3", "7", "4">>
             \o <<"0", "0", "0", "0", "0", "0", "8", "9", "5", "2", "8">>
             \o Chars(4) \o <<"6", "6", "1", "1", "1">> \o <<"*", "*", "*", "*", "*">>
             \o Chars(2) \o <<"1", "0", "4", "0">> \o <<"1", "1", "0", "9">>
             \o <<"5", "5", "5", "0", "1">> \o <<"2", "9", "6", " ", " ", " ">>
      [] OTHER -> Chars(20)

TypeFields == {<<"1", "0">>, <<"2", "0">>, <<"3", "0">>, <<"4", "0">>, <<"5", "0">>,
               <<"6", "0">>}

UnknownTypeFields == {<<"0", "0">>, <<"0", "7">>, <<"1", "5">>, <<"6", "1">>, <<"9", "9">>}

\* date fields: dates that exist, dates that do not, and fields that are not
\* eight digits
DateFields ==
    {<<"2", "0", "2", "1", "0", "4", "3", "0">>,
     <<"2", "0", "2", "0", "0", "2", "2", "9">>,
     <<"2", "0", "2", "1", "0", "2", "2", "9">>,
     <<"2", "0", "2", "1", "1", "3", "0", "1">>,
     <<"2", "0", "2", "1", "0", "4", "0", "0">>,
     <<"2", "0", "2", "1", "a", "4", "3", "0">>,
     <<"2", "0", "2", "1", "0", "4", " ", "1">>,
     <<"-", "0", "0", "1", "0", "1", "0", "1">>,
     <<"2", "0", "2", "1", "U+00FC", "4", "3", "0">>,
     <<"2", "0", "2", "U+00FC", "0", "4", "3", "0">>}

WellFormedDate == <<"2", "0", "2", "1", "0", "4", "3", "0">>

\* the lines of a source, without the line terminator: a type, a date and
\* the rest of a line of the type; lines cut off in or after the date; lines
\* of an unknown type; lines without a type
\* a Gemeinde line up to the optional fields at its end
GemeindeHead ==
    <<"6", "0">> \o WellFormedDate \o SubSeq(LineRest(<<"6", "0">>), 1, 167)

\* the optional fields finanzamtbezirk (4), gerichtbarkeit (4),
\* arbeitsargenturbezirk (5) and bundestagswahlkreise (6) of a Gemeinde line:
\* each blank while the others are not, all blank, cut off, and missing
OptionalTails ==
    { Chars(4) \o <<"1", "1", "0", "9">> \o <<"5", "5", "5", "0", "1">>
          \o <<"2", "9", "6", " ", " ", " ">>,
      <<"1", "0", "4", "0">> \o Chars(4) \o <<"5", "5", "5", "0", "1">>
          \o <<"2", "9", "6", "2", "9", "7">>,
      <<"1", "0", "4", "0">> \o <<"1", "1", "0", "9">> \o Chars(5)
          \o <<"2", "9", "6", " ", " ", " ">>,
      <<"1", "0", "4", "0">> \o <<"1", "1", "0", "9">> \o <<"5", "5", "5", "0", "1">>
          \o Chars(6),
      Chars(19),
      <<"1", "0", "4", "0">> \o <<"1", "1", "0", "9">>,
      <<"1", "0", "4", "0">> \o Chars(2),
      <<>> }

Lines ==
    {t \o d \o LineRest(t) : t \in TypeFields, d \in DateFields}
      \cup {GemeindeHead \o t : t \in OptionalTails}
      \cup {t \o SubSeq(WellFormedDate, 1, n) : t \in {<<"1", "0">>, <<"6", "0">>},
                                                 n \in {0, 3, 5, 7, 8}}
      \cup {t \o WellFormedDate \o LineRest(t) : t \in UnknownTypeFields}
      \cup {t : t \in UnknownTypeFields}
      \cup {<<>>, <<"7">>, <<"+", "5">>, <<"a", "0">> \o WellFormedDate}

Terminators == {<<>>, <<"\n">>, <<"\r", "\n">>, <<"\r">>, <<"\r", "\r", "\n">>}

\* the lines before the last one of a source, each ended by '\n'
EarlierLines ==
    {t \o WellFormedDate \o LineRest(t) \o <<"\n">> : t \in {<<"1", "0">>, <<"9", "9">>}}

\* a source: read_line ends a line at '\n', so that every line but the last
\* ends with it, and only after a '\n' can the last line be empty
Sources ==
    {<<l \o e>> : l \in Lines \ {<<>>}, e \in Terminators}
      \cup {<<e>> : e \in Terminators \ {<<>>}}
      \cup {p \o <<l \o e>> : p \in UNION {[1..n -> EarlierLines] : n \in 1..(MaxLines - 1)},
                              l \in Lines \ {<<>>}, e \in Terminators}

\* parse_line may be called again after the end of the source: the calls
\* that a run makes
MaxCalls == MaxLines + 2

InitParse ==
    /\ DbIdle
    /\ KeyIdle
    /\ PureIdle
    /\ source \in Sources
    /\ reader = source
    /\ lineRead = None
    /\ result = None
    /\ calls = 0

\* parser.parse_line(); a panic ends the thread that calls it
ParseLine ==
    /\ result # Panic
    /\ calls < MaxCalls
    /\ calls' = calls + 1
    /\ LET r == Parser_parse_line(reader) IN
         /\ result' = r.res
         /\ reader' = r.reader
         /\ lineRead' = IF reader = <<>> THEN None ELSE Some(Head(reader))
    /\ UNCHANGED <<dbVars, keyVars, source, pureVars>>

NextParse == ParseLine

SpecParse == InitParse /\ [][NextParse]_vars

\* the line of the last parse_line call has a type field of two digits
HasTypeCode ==
    /\ lineRead # None
    /\ Len(lineRead.val) >= 2
    /\ lineRead.val[1] \in Digits
    /\ lineRead.val[2] \in Digits

TypeCode == DigitsValue(SubSeq(lineRead.val, 1, 2))

\* C9: decoding a line whose first two characters are a two-digit number
\* other than 10, 20, 30, 40, 50 and 60 fails with InvalidType carrying that
\* number; no record is produced.
C9_InvalidType ==
    (HasTypeCode /\ TypeCode \notin {10, 20, 30, 40, 50, 60}) =>
        result = Err([variant |-> "InvalidType", ty |-> TypeCode])

\* a line of the unknown type 7 or 99, with fields after the type, has
\* been decoded
C9_Witness ==
    /\ HasTypeCode
    /\ TypeCode \in {7, 99}
    /\ Len(lineRead.val) > 20
    /\ result.tag = "Err"

\* the date field of the line of the last call: the eight characters after
\* the type, or those that the line has
DateField ==
    LET l == strip_terminator(lineRead.val) IN
    SubSeq(l, 3, IF Len(l) < 10 THEN Len(l) ELSE 10)

\* eight digits that are a date of the calendar
IsCalendarDate(f) ==
    /\ Len(f) = 8
    /\ \A i \in 1..8 : f[i] \in Digits
    /\ LET y == DigitsValue(SubSeq(f, 1, 4))
           m == DigitsValue(SubSeq(f, 5, 6))
           d == DigitsValue(SubSeq(f, 7, 8))
       IN  m \in 1..12 /\ d \in 1..days_in_month(y, m)

\* C10: decoding a line of a known type whose date field is malformed (cut
\* off before its eighth character, not numeric, or not a date of the
\* calendar) returns an error and no record, and never panics.
C10_MalformedDate ==
    (HasTypeCode /\ TypeCode \in {10, 20, 30, 40, 50, 60} /\ ~IsCalendarDate(DateField)) =>
        result.tag = "Err"

\* C12: once parse_line has returned Ok(None), every later call on the same
\* parser returns Ok(None) and the reader stays exhausted; a call returns
\* Ok(None) exactly when all lines of the source were read before it, so the
\* end of the source is never an error and never comes early.
C12_EndOfInput ==
    /\ calls > Len(source) => result = Ok(None) /\ reader = <<>> /\ lineRead = None
    /\ result = Ok(None) => calls > Len(source)
    /\ calls <= Len(source) => Len(reader) = Len(source) - calls

\* the second call after the end of a source of two lines has returned
C12_Witness ==
    /\ Len(source) = 2
    /\ calls = Len(source) + 2
    /\ result = Ok(None)

\* consists entirely of space characters
AllBlank(s) == \A i \in DOMAIN s : s[i] = " "

\* the optional fields at the end of a Gemeinde line: name, offset, width
\* and type
OptionalFields ==
    { [name |-> "finanzamtbezirk", off |-> 177, n |-> 4, T |-> "u16"],
      [name |-> "gerichtbarkeit", off |-> 181, n |-> 4, T |-> "Gerichtbarkeit"],
      [name |-> "arbeitsargenturbezirk", off |-> 185, n |-> 5, T |-> "u32"],
      [name |-> "bundestagswahlkreise", off |-> 190, n |-> 6,
       T |-> "Bundestagswahlkreise"] }

\* the characters of the field in the line, fewer when the line ends early
FieldOf(line, f) ==
    SubSeq(line, f.off + 1, IF f.off + f.n < Len(line) THEN f.off + f.n ELSE Len(line))

\* short fields in front of a rest, for next_opt and parse_next_opt
OptInputs ==
    { <<>>, <<" ">>, <<" ", " ", " ">>, <<" ", " ", "7">>, <<"7", " ", " ">>,
      <<"0", "4", "1", "1">>, <<" ", "U+00FC", "1">>, <<"1", "2", " ", " ", "4">>,
      <<" ", " ", " ", " ", "4", "2">> }

OptWidths == {0, 1, 2, 3, 4}

\* C17: next_opt(n) and parse_next_opt(n) return absent exactly when the
\* slice of n characters consists entirely of spaces, and the slice, or the
\* slice parsed, otherwise; the cursor moves by the width of the field in
\* both cases.  So each of the optional fields finanzamtbezirk,
\* gerichtbarkeit, arbeitsargenturbezirk and bundestagswahlkreise of a
\* decoded Gemeinde is absent exactly when its field in the line is all
\* blank, and has the value parsed from the field otherwise.
C17_OptionalFields ==
    /\ \A line \in OptInputs : \A n \in OptWidths :
         LET slice == SubSeq(line, 1, IF n < Len(line) THEN n ELSE Len(line))
             rest == SubSeq(line, Len(slice) + 1, Len(line))
         IN  /\ FieldReader_next_opt(line, n).s = None <=> AllBlank(slice)
             /\ ~AllBlank(slice) => FieldReader_next_opt(line, n).s = Some(slice)
             /\ FieldReader_next_opt(line, n).self = rest
             /\ \A T \in {"u8", "u16"} :
                  /\ FieldReader_parse_next_opt(line, n, T).res = Ok(None)
                         <=> AllBlank(slice)
                  /\ ~AllBlank(slice) =>
                         FieldReader_parse_next_opt(line, n, T).res
                             = Option_transpose(T_from_str(T, slice))
                  /\ FieldReader_parse_next_opt(line, n, T).self = rest
    /\ /\ lineRead # None
       /\ result # None
       /\ result.tag = "Ok"
       /\ result.val # None
       /\ result.val.val.kind = "Gemeinde"
       => \A f \in OptionalFields :
              LET slice == FieldOf(strip_terminator(lineRead.val), f) IN
              /\ result.val.val.daten[f.name] = None <=> AllBlank(slice)
              /\ ~AllBlank(slice) =>
                     Ok(result.val.val.daten[f.name])
                         = Option_transpose(T_from_str(f.T, slice))

\* a Gemeinde line was decoded whose gerichtbarkeit is blank and whose other
\* optional fields are not
C17_Witness ==
    /\ lineRead # None
    /\ result # None
    /\ result.tag = "Ok"
    /\ result.val # None
    /\ result.val.val.kind = "Gemeinde"
    /\ Len(strip_terminator(lineRead.val)) = 196
    /\ AllBlank(SubSeq(strip_terminator(lineRead.val), 182, 185))
    /\ result.val.val.daten.gerichtbarkeit = None
    /\ result.val.val.daten.finanzamtbezirk = Some(1040)
    /\ result.val.val.daten.arbeitsargenturbezirk # None
    /\ result.val.val.daten.bundestagswahlkreise # None

\* the kind of record of a type code
RecordKind(code) ==
    CASE code = <<"1", "0">> -> "Land"
      [] code = <<"2", "0">> -> "Regierungsbezirk"
      [] code = <<"3", "0">> -> "Region"
      [] code = <<"4", "0">> -> "Kreis"
      [] code = <<"5", "0">> -> "Gemeindeverband"
      [] code = <<"6", "0">> -> "Gemeinde"

\* the width of the key field that follows the date
KeyFieldWidth(kind) ==
    CASE kind = "Land" -> 2
      [] kind = "Regierungsbezirk" -> 3
      [] kind = "Region" -> 4
      [] kind \in {"Kreis", "Gemeindeverband"} -> 5
      [] kind = "Gemeinde" -> 8

\* the key type of the key field
KeyFieldType(kind) ==
    CASE kind = "Gemeindeverband" -> "Kreis"
      [] kind = "Gemeinde" -> "Regional"
      [] OTHER -> kind

\* the first character of the name field: the key field is filled up to 12
\* characters, but for a Region
NameStart(kind) == IF kind = "Region" THEN 15 ELSE 23

\* a field of a Gemeinde line that may be blank
BlankOr(f, P(_)) == AllBlank(f) \/ P(f)

\* the fields of a Gemeinde line after the name: numbers, and optional
\* fields that are blank or have a value
WellFormedGemeindeTail(line) ==
    /\ Len(line) = 196
    /\ AllDigits(SubSeq(line, 19, 22))
    /\ AllDigits(SubSeq(line, 129, 161))
    /\ BlankOr(SubSeq(line, 178, 181), AllDigits)
    /\ \A i \in 182..185 : line[i] \in Digits \cup {" "}
    /\ BlankOr(SubSeq(line, 186, 190), AllDigits)
    /\ BlankOr(SubSeq(line, 191, 196),
               LAMBDA f : /\ AllDigits(SubSeq(f, 1, 3))
                          /\ BlankOr(SubSeq(f, 4, 6), AllDigits))

\* a line of a known type with a date of the calendar, a key field of
\* digits, and the name fields in full
WellFormedLine(line) ==
    /\ Len(line) >= 10
    /\ SubSeq(line, 1, 2) \in TypeFields
    /\ IsCalendarDate(SubSeq(line, 3, 10))
    /\ LET kind == RecordKind(SubSeq(line, 1, 2)) IN
         /\ Len(line) >= NameStart(kind) + 99
         /\ AllDigits(SubSeq(line, 11, 10 + KeyFieldWidth(kind)))
         /\ kind = "Gemeindeverband" => AllDigits(SubSeq(line, 19, 22))
         /\ kind = "Gemeinde" => WellFormedGemeindeTail(line)

\* the key, name and seat of a record are those of the fields of the line
FieldsOfLine(line, kind, d) ==
    /\ d[IF kind = "Gemeindeverband" THEN "kreis_schluessel" ELSE "schluessel"]
         = FromStr(KeyFieldType(kind), SubSeq(line, 11, 10 + KeyFieldWidth(kind))).val
    /\ kind \in {"Gemeindeverband", "Gemeinde"} =>
         d.gemeindeverband = DigitsValue(SubSeq(line, 19, 22))
    /\ d.name = trim(SubSeq(line, NameStart(kind), NameStart(kind) + 49))
    /\ kind # "Gemeinde" =>
         d[IF kind = "Land" THEN "sitz_regierung" ELSE "sitz_verwaltung"]
           = trim(SubSeq(line, NameStart(kind) + 50, NameStart(kind) + 99))

\* C22: decoding a well-formed line yields one record: its kind is that of
\* the type code (10 to 60), its key is parsed from the key field after the
\* date of 8 characters, and its name and seat are the fields of 50
\* characters, counted in characters (a 'U+00FC' in the name does not shift
\* the seat), without the blanks around them.
C22_WellFormedLine ==
    lineRead # None /\ WellFormedLine(strip_terminator(lineRead.val)) =>
        /\ result.tag = "Ok"
        /\ result.val # None
        /\ result.val.val.kind = RecordKind(SubSeq(lineRead.val, 1, 2))
        /\ FieldsOfLine(strip_terminator(lineRead.val), result.val.val.kind,
                        result.val.val.daten)

\* a Kreis line was decoded whose name field has a character of two bytes
\* before its seat field, which is not blank
C22_Witness ==
    /\ lineRead # None
    /\ WellFormedLine(strip_terminator(lineRead.val))
    /\ result = Ok(Some([kind |-> "Kreis",
                         daten |-> result.val.val.daten]))
    /\ "U+00FC" \in SeqRange(SubSeq(lineRead.val, 23, 72))
    /\ result.val.val.daten.name = Saarbruecken
    /\ result.val.val.daten.sitz_verwaltung = Saarbruecken

\* C25: every call of parse_line that does not return the end of the
\* source takes exactly one line from the reader, whether it returns a
\* record or an error: the k-th call reads and decodes the k-th line of the
\* source, also when the call before it failed, and the calls after the
\* last line return the end of the source.
C25_OneLinePerCall ==
    /\ calls <= Len(source) =>
         /\ reader = SubSeq(source, calls + 1, Len(source))
         /\ calls >= 1 =>
              /\ lineRead = Some(source[calls])
              /\ result = decode_line(source[calls])
              /\ result # Ok(None)
    /\ calls > Len(source) => reader = <<>> /\ result = Ok(None)

\* the second call has decoded the second line to a record after the first
\* call returned the error of the first line
C25_Witness ==
    /\ calls = 2
    /\ Len(source) = 2
    /\ decode_line(source[1]).tag = "Err"
    /\ lineRead = Some(source[2])
    /\ result.tag = "Ok"
    /\ result.val # None
    /\ reader = <<>>

\* buf without one line terminator at its end: "\r\n", '\n' or '\r'
StripOneTerminator(buf) ==
    LET n == Len(buf) IN
    IF n >= 2 /\ buf[n - 1] = "\r" /\ buf[n] = "\n" THEN SubSeq(buf, 1, n - 2)
    ELSE IF n >= 1 /\ buf[n] \in {"\n", "\r"} THEN SubSeq(buf, 1, n - 1)
    ELSE buf

\* C26: parse_line removes only the one line terminator at the end of the
\* line ('\n', '\r' or "\r\n") before it reads the fields: the result is
\* that of decoding the line without that terminator, so that a '\r' before
\* the terminator is a character of the last field, and a last line
\* without a terminator is decoded as it is.
C26_SingleTerminator ==
    lineRead # None => result = decode_buf(StripOneTerminator(lineRead.val))

(***************************************************************************)
(* Specification SpecLoad: Database::from_parser (db.rs:61-69), one        *)
(* iteration of its loop per step.                                         *)
(***************************************************************************)
\* The struct that Database::insert takes, of the record that parse_line
\* built.  The arms 50 and 60 of parse_line fill the fields kreis_schluessel
\* and gemeindeverband, where the structs of model/ have one schluessel;
\* the key is composed of them as the specification describes: Kreis and
\* Gemeindeverband number, and Kreis, Gemeindeverband number and Gemeinde
\* number.
Datensatz_for_insert(record) ==
    LET d == record.daten IN
    CASE record.kind = "Gemeindeverband" ->
           [kind |-> record.kind,
            daten |-> ("schluessel" :>
                         GemeindeverbandSchluessel_new(d.kreis_schluessel,
                                                       d.gemeindeverband)) @@ d]
      [] record.kind = "Gemeinde" ->
           [kind |-> record.kind,
            daten |-> ("schluessel" :>
                         GemeindeSchluessel_from_regional_schluessel(
                             d.schluessel, d.gemeindeverband)) @@ d]
      [] OTHER -> record

InitLoad ==
    /\ db = Database_default
    /\ log = <<>>
    /\ KeyIdle
    /\ PureIdle
    /\ source \in Sources
    /\ reader = source
    /\ lineRead = None
    /\ result = None
    /\ calls = 0

\* from_parser with `?` replaced by skipping the line that failed
from_parser_err_skipped(r) ==
    /\ r.res.tag = "Err"
    /\ result' = None
    /\ UNCHANGED dbVars

\* an iteration that ends the loop without inserting: `?` returns the error
\* of parse_line and drops db
from_parser_err(r) ==
    /\ r.res.tag = "Err"
    /\ result' = r.res
    /\ UNCHANGED dbVars

\* an iteration that ends the loop without inserting: Ok(db) at the end of
\* the source, or a panic of parse_line
from_parser_end(r) ==
    /\ r.res.tag # "Err"
    /\ result' = IF r.res = Ok(None) THEN Ok(db) ELSE Panic
    /\ UNCHANGED dbVars

\* while let Some(datensatz) = parser.parse_line()? { db.insert(datensatz); }
FromParser ==
    /\ result = None
    /\ calls' = calls + 1
    /\ \E r \in {Parser_parse_line(reader)} :
         /\ reader' = r.reader
         /\ lineRead' = IF reader = <<>> THEN None ELSE Some(Head(reader))
         /\ IF r.res.tag = "Ok" /\ r.res.val # None
            THEN /\ db' = Database_insert(db, Datensatz_for_insert(r.res.val.val))
                 /\ log' = Append(log, Datensatz_for_insert(r.res.val.val))
                 /\ result' = None
            ELSE from_parser_err(r) \/ from_parser_end(r)
    /\ UNCHANGED <<keyVars, source, pureVars>>

NextLoad == FromParser

SpecLoad == InitLoad /\ [][NextLoad]_vars

\* the number of lines that the parser has read
LinesRead == Len(source) - Len(reader)

\* the first n lines of the source decode to the records in log
DecodedToLog(n) ==
    /\ Len(log) = n
    /\ \A i \in 1..n :
         /\ decode_line(source[i]).tag = "Ok"
         /\ decode_line(source[i]).val # None
         /\ log[i] = Datensatz_for_insert(decode_line(source[i]).val.val)

\* C11: from_parser fails fast.  When it returns an error, that is the
\* error of the first line of the source that fails to decode, all lines
\* before it were inserted in order, no later line was read, and no database
\* is returned; when it returns a database, every line of the source was
\* decoded and the database is that of the inserts of all lines in order.
C11_FailFast ==
    /\ result # None /\ result.tag = "Err" =>
         /\ LinesRead >= 1
         /\ DecodedToLog(LinesRead - 1)
         /\ decode_line(source[LinesRead]) = result
         /\ reader = SubSeq(source, LinesRead + 1, Len(source))
         /\ DOMAIN result = {"tag", "err"}
    /\ result # None /\ result.tag = "Ok" =>
         /\ reader = <<>>
         /\ DecodedToLog(Len(source))
         /\ result.val = InsertAll(log)
    /\ result = None => DecodedToLog(LinesRead) /\ db = InsertAll(log)

\* from_parser has returned the error of the first line of a source whose
\* second line, which would decode, is left unread
C11_Witness ==
    /\ result # None
    /\ result.tag = "Err"
    /\ Len(source) = 2
    /\ Len(reader) = 1
    /\ decode_line(reader[1]).tag = "Ok"
    /\ decode_line(reader[1]).val # None

\* the RegionalSchluessel field of a Gemeinde line: 8 digits after type and
\* date
RegionalField(line) == SubSeq(line, 11, 18)

\* the GemeindeSchluessel of 12 digits of a Gemeinde line: the Kreis of the
\* RegionalSchluessel field, the Gemeindeverband field, and the Gemeinde
\* number of the RegionalSchluessel field
GemeindeKeyString(line) ==
    SubSeq(line, 11, 15) \o SubSeq(line, 19, 22) \o SubSeq(line, 16, 18)

Ord_cmp(ty, a, b) ==
    LET lt(x, y) ==
            CASE ty = "Land" -> LandLt(x, y)
              [] ty = "Regierungsbezirk" -> RegierungsbezirkLt(x, y)
              [] ty = "Region" -> RegionLt(x, y)
              [] ty = "Kreis" -> KreisLt(x, y)
              [] ty = "Gemeindeverband" -> GemeindeverbandLt(x, y)
              [] ty = "Regional" -> RegionalLt(x, y)
              [] ty = "Gemeinde" -> GemeindeLt(x, y)
    IN  IF lt(a, b) THEN "Less" ELSE IF lt(b, a) THEN "Greater" ELSE "Equal"

\* the (K, V) pairs with an impl From<V> for K
FromPairs ==
    { <<"Land", "Regierungsbezirk">>, <<"Land", "Region">>, <<"Land", "Kreis">>,
      <<"Land", "Gemeindeverband">>, <<"Land", "Regional">>, <<"Land", "Gemeinde">>,
      <<"Regierungsbezirk", "Region">>, <<"Regierungsbezirk", "Kreis">>,
      <<"Regierungsbezirk", "Gemeindeverband">>, <<"Regierungsbezirk", "Regional">>,
      <<"Regierungsbezirk", "Gemeinde">>,
      <<"Kreis", "Gemeindeverband">>, <<"Kreis", "Regional">>, <<"Kreis", "Gemeinde">>,
      <<"Gemeindeverband", "Gemeinde">>, <<"Regional", "Gemeinde">> }

\* K::from(k) for a key k of type V
From(K, V, k) ==
    CASE K = "Land" /\ V = "Regierungsbezirk" -> Land_from_Regierungsbezirk(k)
      [] K = "Land" /\ V = "Region" -> Land_from_Region(k)
      [] K = "Land" /\ V = "Kreis" -> Land_from_Kreis(k)
      [] K = "Land" /\ V = "Gemeindeverband" -> Land_from_Gemeindeverband(k)
      [] K = "Land" /\ V = "Regional" -> Land_from_Regional(k)
      [] K = "Land" /\ V = "Gemeinde" -> Land_from_Gemeinde(k)
      [] K = "Regierungsbezirk" /\ V = "Region" -> Regierungsbezirk_from_Region(k)
      [] K = "Regierungsbezirk" /\ V = "Kreis" -> Regierungsbezirk_from_Kreis(k)
      [] K = "Regierungsbezirk" /\ V = "Gemeindeverband" ->
           Regierungsbezirk_from_Gemeindeverband(k)
      [] K = "Regierungsbezirk" /\ V = "Regional" -> Regierungsbezirk_from_Regional(k)
      [] K = "Regierungsbezirk" /\ V = "Gemeinde" -> Regierungsbezirk_from_Gemeinde(k)
      [] K = "Kreis" /\ V = "Gemeindeverband" -> Kreis_from_Gemeindeverband(k)
      [] K = "Kreis" /\ V = "Regional" -> Kreis_from_Regional(k)
      [] K = "Kreis" /\ V = "Gemeinde" -> Kreis_from_Gemeinde(k)
      [] K = "Gemeindeverband" /\ V = "Gemeinde" -> Gemeindeverband_from_Gemeinde(k)
      [] K = "Regional" /\ V = "Gemeinde" -> Regional_from_Gemeinde(k)

\* The components of the keys compared: at every level two values whose
\* order as numbers (9 < 10) is not their order as unpadded strings, and the
\* extreme values of the component's type.
OrdLand == {9, 10, 255}
OrdRb == {0, 10}
OrdRegion == {9, 10}
OrdKreis == {9, 10}
OrdGv == {9, 65535}
OrdGem == {9, 10}

OrdKeys(ty) ==
    CASE ty = "Land" -> {KLand(l) : l \in OrdLand}
      [] ty = "Regierungsbezirk" -> {KRb(l, r) : l \in OrdLand, r \in OrdRb}
      [] ty = "Region" ->
           {KRegion(l, r, x) : l \in OrdLand, r \in OrdRb, x \in OrdRegion}
      [] ty = "Kreis" -> {KKreis(l, r, k) : l \in OrdLand, r \in OrdRb, k \in OrdKreis}
      [] ty = "Gemeindeverband" ->
           {KGv(l, r, k, v) : l \in OrdLand, r \in OrdRb, k \in OrdKreis, v \in OrdGv}
      [] ty = "Regional" ->
           {KRegional(l, r, k, g) :
               l \in OrdLand, r \in OrdRb, k \in OrdKreis, g \in OrdGem}
      [] ty = "Gemeinde" ->
           {KGem(l, r, k, v, g) :
               l \in OrdLand, r \in OrdRb, k \in OrdKreis, v \in OrdGv, g \in OrdGem}

InitOrd ==
    /\ DbIdle
    /\ KeyIdle
    /\ ParseIdle
    /\ FieldIdle
    /\ QueryIdle
    /\ \E ty \in KeyTypes : \E a \in OrdKeys(ty) : \E b \in OrdKeys(ty) :
         ordIn = [ty |-> ty, a |-> a, b |-> b]
    /\ ordOut = None

\* a.cmp(&b)
Cmp ==
    /\ ordOut = None
    /\ ordOut' = [op |-> "cmp", ordering |-> Ord_cmp(ordIn.ty, ordIn.a, ordIn.b)]
    /\ UNCHANGED <<ordIn, dbVars, keyVars, parseVars, fieldVars, queryOut>>

\* K::from(a) and K::from(b)
Convert ==
    /\ ordOut = None
    /\ \E pair \in FromPairs :
         /\ pair[2] = ordIn.ty
         /\ ordOut' = [op |-> "from", K |-> pair[1],
                       a |-> From(pair[1], ordIn.ty, ordIn.a),
                       b |-> From(pair[1], ordIn.ty, ordIn.b)]
    /\ UNCHANGED <<ordIn, dbVars, keyVars, parseVars, fieldVars, queryOut>>

NextOrd == Cmp \/ Convert

SpecOrd == InitOrd /\ [][NextOrd]_vars

\* the numeric components of a key, state first
KeyComps(ty, k) ==
    IF ty = "Regional"
    THEN Comps("Kreis", k.kreis) \o <<k.gemeinde>>
    ELSE Comps(ty, k)

\* C14: at every level, a key is less than another exactly when, at the
\* first component from the state down where the two differ, its component
\* is the smaller number; so the conversion to an ancestor level keeps the
\* order (a <= b implies from(a) <= from(b)), and the keys with one ancestor
\* are contiguous: a key between two keys of one ancestor has that ancestor.
C14_KeyOrder ==
    /\ ordOut # None /\ ordOut.op = "cmp" =>
         LET ca == KeyComps(ordIn.ty, ordIn.a)
             cb == KeyComps(ordIn.ty, ordIn.b)
         IN  /\ ordOut.ordering = "Less" <=> CompsLess(ca, cb)
             /\ ordOut.ordering = "Greater" <=> CompsLess(cb, ca)
             /\ ordOut.ordering = "Equal" <=> ordIn.a = ordIn.b
    /\ ordOut # None /\ ordOut.op = "from" /\ ordOut.K # "Regional" =>
         /\ Ord_cmp(ordIn.ty, ordIn.a, ordIn.b) # "Greater"
              => Ord_cmp(ordOut.K, ordOut.a, ordOut.b) # "Greater"
         /\ ordOut.a = ordOut.b =>
              \A c \in OrdKeys(ordIn.ty) :
                  /\ Ord_cmp(ordIn.ty, ordIn.a, c) = "Less"
                  /\ Ord_cmp(ordIn.ty, c, ordIn.b) = "Less"
                  => From(ordOut.K, ordIn.ty, c) = ordOut.a

\* two Gemeinden that first differ in the Kreis, 9 against 10, while the
\* later components are in the opposite order, were compared
C14_Witness ==
    /\ ordOut # None
    /\ ordOut.op = "cmp"
    /\ ordIn.ty = "Gemeinde"
    /\ ordIn.a = KGem(10, 0, 9, 65535, 10)
    /\ ordIn.b = KGem(10, 0, 10, 9, 9)
    /\ ordOut.ordering = "Less"

\* C19: the conversion of a key to an ancestor level is defined for every
\* key and yields a key of that level; it drops the trailing components and
\* keeps the others; it does not depend on the path: converting directly
\* gives what converting through any level in between gives, and the
\* alternate key of a Gemeinde converts to the Kreis, Regierungsbezirk and
\* Land that the Gemeinde key converts to.
C19_Projection ==
    ordOut # None /\ ordOut.op = "from" =>
        /\ ordOut.K # "Regional" =>
             /\ ordOut.a = KeyOfComps(ordOut.K, KeyComps(ordOut.K, ordOut.a))
             /\ KeyComps(ordOut.K, ordOut.a)
                    = SubSeq(KeyComps(ordIn.ty, ordIn.a), 1, LevelLen(ordOut.K))
        /\ ordOut.K = "Regional" =>
             KeyComps("Regional", ordOut.a)
                 = SubSeq(KeyComps(ordIn.ty, ordIn.a), 1, 3) \o <<ordIn.a.gemeinde>>
        /\ \A M \in KeyTypes :
             <<ordOut.K, M>> \in FromPairs /\ <<M, ordIn.ty>> \in FromPairs
                 => From(ordOut.K, M, From(M, ordIn.ty, ordIn.a)) = ordOut.a
        /\ ordIn.ty = "Regional" =>
             \A v \in OrdGv :
                 From(ordOut.K, "Gemeinde",
                      RegionalSchluessel_to_gemeinde_schluessel(ordIn.a, v)) = ordOut.a

\* a Gemeinde key with five different components was converted to its Land
C19_Witness ==
    /\ ordOut # None
    /\ ordOut.op = "from"
    /\ ordIn.ty = "Gemeinde"
    /\ ordIn.a = KGem(255, 0, 9, 65535, 10)
    /\ ordOut.K = "Land"
    /\ ordOut.a = KLand(255)
    /\ Land_from_Regierungsbezirk(Regierungsbezirk_from_Kreis(
           Kreis_from_Gemeindeverband(Gemeindeverband_from_Gemeinde(ordIn.a)))) = KLand(255)

(***************************************************************************)
(* Specification SpecFields: a FieldReader over one line, and up to        *)
(* MaxFieldCalls calls of next, next_opt, parse_next, parse_next_opt and   *)
(* skip on it.                                                             *)
(***************************************************************************)
MaxFieldCalls == 3

\* lines with digits, spaces and the two-byte character, and the empty line
FieldLines ==
    { <<>>,
      <<"7">>,
      <<" ", " ", " ">>,
      <<"1", "2", " ", " ", "4">>,
      <<"U+00FC", "1", " ">>,
      <<" ", "U+00FC", "U+00FC", "8", "9">>,
      <<"0", "4", "1", "1", "0", "0">> }

\* the widths asked for: nothing, less than, as much as and more than is left
FieldWidths == {0, 1, 2, 3, 6}

FieldTypes == {"u8", "u16"}

InitFields ==
    /\ DbIdle
    /\ KeyIdle
    /\ ParseIdle
    /\ OrdIdle
    /\ QueryIdle
    /\ fldLine \in FieldLines
    /\ fldRest = FieldReader_new(fldLine)
    /\ fldOut = None
    /\ fldCalls = 0

\* what every call does to the variables other than fldOut and fldRest
FieldCall ==
    /\ fldCalls < MaxFieldCalls
    /\ fldCalls' = fldCalls + 1
    /\ UNCHANGED <<fldLine, dbVars, keyVars, parseVars, ordVars, queryOut>>

CallNext ==
    /\ FieldCall
    /\ \E n \in FieldWidths :
         /\ fldOut' = [op |-> "next", n |-> n, before |-> fldRest,
                       out |-> [tag |-> "Str", s |-> FieldReader_next(fldRest, n).s]]
         /\ fldRest' = FieldReader_next(fldRest, n).self

CallNextOpt ==
    /\ FieldCall
    /\ \E n \in FieldWidths :
         /\ fldOut' = [op |-> "next_opt", n |-> n, before |-> fldRest,
                       out |-> FieldReader_next_opt(fldRest, n).s]
         /\ fldRest' = FieldReader_next_opt(fldRest, n).self

CallParseNext ==
    /\ FieldCall
    /\ \E n \in FieldWidths : \E T \in FieldTypes :
         /\ fldOut' = [op |-> "parse_next", n |-> n, T |-> T, before |-> fldRest,
                       out |-> FieldReader_parse_next(fldRest, n, T).res]
         /\ fldRest' = FieldReader_parse_next(fldRest, n, T).self

CallParseNextOpt ==
    /\ FieldCall
    /\ \E n \in FieldWidths : \E T \in FieldTypes :
         /\ fldOut' = [op |-> "parse_next_opt", n |-> n, T |-> T, before |-> fldRest,
                       out |-> FieldReader_parse_next_opt(fldRest, n, T).res]
         /\ fldRest' = FieldReader_parse_next_opt(fldRest, n, T).self

CallSkip ==
    /\ FieldCall
    /\ \E n \in FieldWidths :
         /\ fldOut' = [op |-> "skip", n |-> n, before |-> fldRest,
                       out |-> [tag |-> "Unit"]]
         /\ fldRest' = FieldReader_skip(fldRest, n)

NextFields ==
    CallNext \/ CallNextOpt \/ CallParseNext \/ CallParseNextOpt \/ CallSkip

SpecFields == InitFields /\ [][NextFields]_vars

\* the smaller of two numbers
Min(a, b) == IF a < b THEN a ELSE b

\* the first n characters of s, all of s when it has fewer
Take(s, n) == SubSeq(s, 1, Min(n, Len(s)))

\* s without its first n characters
Drop(s, n) == SubSeq(s, Min(n, Len(s)) + 1, Len(s))

\* C15: next(n) called with fewer than n characters left returns exactly the
\* characters left (the empty string when none is left) as a string, not an
\* error or a panic, and leaves the reader at the end of the line; next and
\* skip called at the end of the line return the empty string and do
\* nothing.
C15_Truncation ==
    /\ fldOut # None /\ fldOut.op = "next" /\ Len(fldOut.before) < fldOut.n =>
         /\ fldOut.out = [tag |-> "Str", s |-> fldOut.before]
         /\ fldRest = <<>>
    /\ fldOut # None /\ fldOut.op = "next" /\ fldOut.before = <<>> =>
         /\ fldOut.out = [tag |-> "Str", s |-> <<>>]
         /\ fldRest = <<>>
    /\ fldOut # None /\ fldOut.op = "skip" /\ fldOut.before = <<>> =>
         fldRest = <<>>

\* next(6) was called with the two characters "8", "9" left after the
\* two-byte characters of the line were taken
C15_Witness ==
    /\ fldOut # None
    /\ fldOut.op = "next"
    /\ fldOut.n = 6
    /\ fldLine = <<" ", "U+00FC", "U+00FC", "8", "9">>
    /\ fldOut.before = <<"8", "9">>
    /\ fldOut.out.s = <<"8", "9">>

\* C16: every call of next, next_opt, parse_next, parse_next_opt and skip
\* moves the cursor forward by exactly the smaller of n and the number of
\* characters left, counted in characters and not in bytes; the cursor never
\* moves back; what next returns is the characters between the cursor before
\* and after the call, so that consecutive calls walk the line without
\* returning a character twice or leaving one out.
C16_CursorAdvance ==
    /\ fldRest = SubSeq(fldLine, Len(fldLine) - Len(fldRest) + 1, Len(fldLine))
    /\ fldOut # None =>
         /\ Len(fldRest) = Len(fldOut.before) - Min(fldOut.n, Len(fldOut.before))
         /\ fldRest = Drop(fldOut.before, fldOut.n)
         /\ Len(fldRest) <= Len(fldOut.before)
         /\ fldOut.op = "next" =>
              /\ fldOut.out.s = Take(fldOut.before, fldOut.n)
              /\ fldOut.out.s \o fldRest = fldOut.before

\* after one character was taken, next(2) was called in front of the two
\* two-byte characters and returned both
C16_Witness ==
    /\ fldOut # None
    /\ fldOut.op = "next"
    /\ fldOut.n = 2
    /\ fldCalls = 2
    /\ fldOut.before = <<"U+00FC", "U+00FC", "8", "9">>
    /\ fldOut.out.s = <<"U+00FC", "U+00FC">>
    /\ fldRest = <<"8", "9">>

(***************************************************************************)
(* Specification SpecQuery: up to MaxQueryInserts records are inserted,    *)
(* then get, all or children is called, with a key that is stored or one   *)
(* that is not.  The three take &self: a run with more calls goes through  *)
(* the same database states.                                               *)
(***************************************************************************)
MaxQueryInserts == 2

InitQuery == Init

InsertQ ==
    /\ queryOut = None
    /\ Len(log) < MaxQueryInserts
    /\ Insert

\* db.get::<K, V>(k)
Get ==
    /\ queryOut = None
    /\ \E pair \in LookupPairs : \E k \in QueryKeys(pair[1]) :
         queryOut' = [op |-> "get", K |-> pair[1], V |-> pair[2], k |-> k,
                      out |-> Database_get(db, pair[1], pair[2], k)]
    /\ UNCHANGED <<dbVars, keyVars, parseVars, ordVars, fieldVars>>

\* db.all::<V>(), collected
All ==
    /\ queryOut = None
    /\ \E V \in Kinds :
         queryOut' = [op |-> "all", V |-> V,
                      out |-> [tag |-> "Iter", items |-> Database_all(db, V)]]
    /\ UNCHANGED <<dbVars, keyVars, parseVars, ordVars, fieldVars>>

\* db.children::<K, V>(k), collected
Children ==
    /\ queryOut = None
    /\ \E pair \in ChildPairs : \E k \in QueryKeys(pair[1]) :
         queryOut' = [op |-> "children", K |-> pair[1], V |-> pair[2], k |-> k,
                      out |-> Database_children(db, pair[1], pair[2], k)]
    /\ UNCHANGED <<dbVars, keyVars, parseVars, ordVars, fieldVars>>

NextQuery == InsertQ \/ Get \/ All \/ Children

SpecQuery == InitQuery /\ [][NextQuery]_vars

\* C18: in every database state, the empty one included, every get, all and
\* children call, with any key, returns None or a stored entity, or a
\* sequence, possibly empty, of stored entities: never an error or a panic;
\* and the database is after the call what the inserts made it.
C18_QueriesTotal ==
    /\ db = InsertAll(log)
    /\ queryOut # None =>
         /\ queryOut.op = "get" =>
              \/ queryOut.out = None
              \/ /\ queryOut.out.tag = "Some"
                 /\ queryOut.out.val \in Stored(db, queryOut.V)
         /\ queryOut.op \in {"all", "children"} =>
              /\ queryOut.out.tag = "Iter"
              /\ \A i \in DOMAIN queryOut.out.items :
                   queryOut.out.items[i] \in Stored(db, queryOut.V)
         /\ db = Database_default =>
              queryOut.out \in {None, [tag |-> "Iter", items |-> <<>>]}

\* children was called with the key of a Land that has no record, for the
\* Kreise below it, in a database that holds Kreise of another Land
C18_Witness ==
    /\ queryOut # None
    /\ queryOut.op = "children"
    /\ queryOut.K = "Land"
    /\ queryOut.V = "Kreis"
    /\ queryOut.k = KLand(255)
    /\ DOMAIN db.kreise = {KKreis(10, 0, 41), KKreis(10, 255, 0)}
    /\ db.laender = EmptyMap
    /\ queryOut.out = [tag |-> "Iter", items |-> <<>>]


(***************************************************************************)
(* Specification SpecRange: into_range_key (db.rs:135-255) of a key k of   *)
(* type K for the keys of type V, for every impl IntoRangeKey<V> for K,    *)
(* and a key d of type V to compare with the bounds.  The components are   *)
(* the least and the largest values of their types and a value between.    *)
(***************************************************************************)
InitRange ==
    /\ DbIdle
    /\ KeyIdle
    /\ ParseIdle
    /\ FieldIdle
    /\ QueryIdle
    /\ \E pair \in ChildPairs :
         \E k \in QueryKeys(pair[1]) : \E d \in QueryKeys(pair[2]) :
             ordIn = [K |-> pair[1], V |-> pair[2], k |-> k, d |-> d]
    /\ ordOut = None

\* k.into_range_key()
IntoRange ==
    /\ ordOut = None
    /\ ordOut' = [op |-> "range", range |-> IntoRangeKey(ordIn.K, ordIn.V, ordIn.k)]
    /\ UNCHANGED <<ordIn, dbVars, keyVars, parseVars, fieldVars, queryOut>>

NextRange == IntoRange

SpecRange == InitRange /\ [][NextRange]_vars

\* a <= b in the order of the key type
Ord_le(kind, a, b) == ~Ord_lt(kind, b, a)

\* d is in the range r of keys of type V
InRange(V, r, d) == Ord_le(V, r.lo, d) /\ Ord_le(V, d, r.hi)

\* C23: for every pair (K, V) with an impl and every key k of type K,
\* k.into_range_key() is a range from low to high with low <= high, whose
\* bounds have the components of k at the levels of k, and a key d of type V
\* is in the range exactly when its components at the levels of k are those
\* of k; also for components that are the least or the largest value of
\* their type, beyond the digits of the key's string form.
C23_RangeOfDescendants ==
    ordOut # None /\ ordOut.op = "range" =>
        /\ Ord_le(ordIn.V, ordOut.range.lo, ordOut.range.hi)
        /\ PrefixAt(ordIn.K, ordIn.V, ordOut.range.lo) = Comps(ordIn.K, ordIn.k)
        /\ PrefixAt(ordIn.K, ordIn.V, ordOut.range.hi) = Comps(ordIn.K, ordIn.k)
        /\ InRange(ordIn.V, ordOut.range, ordIn.d)
             <=> PrefixAt(ordIn.K, ordIn.V, ordIn.d) = Comps(ordIn.K, ordIn.k)

\* the range of the Gemeinden of a Gemeindeverband whose components are all
\* the largest values of their types, and the Gemeinde of it with the
\* largest number
C23_Witness ==
    /\ ordOut # None
    /\ ordOut.op = "range"
    /\ ordIn.K = "Gemeindeverband"
    /\ ordIn.V = "Gemeinde"
    /\ ordIn.k = KGv(255, 255, 255, 65535)
    /\ ordIn.d = KGem(255, 255, 255, 65535, 65535)
    /\ InRange("Gemeinde", ordOut.range, ordIn.d)

=============================================================================
